---- MODULE Spec2Model ----
(***************************************************************************)
(* Adverse-media identity-linkage review (juni-agent).                     *)
(*                                                                         *)
(* The module models the evidence-aggregation and decision pipeline of     *)
(* src/: utils.py, config.py, name_matcher.py, decision_engine.py and      *)
(* compliance_agent.py.  The three OpenAI calls (anchor extraction, name   *)
(* matching, anchor verification) are oracles: their responses are inputs  *)
(* chosen nondeterministically, and the Python code that consumes a        *)
(* response is modelled as written.                                        *)
(*                                                                         *)
(* Strings.  A Python str is a sequence of units.  A unit is a word or a   *)
(* single blank " " (names), a single character (employer, city, id), or   *)
(* a whole date / number literal (dates, ages).  lower(), strip(),         *)
(* split() and the `in` substring test are computed on the units.          *)
(* Python's None is the value None below.                                  *)
(***************************************************************************)
EXTENDS Integers, Sequences, FiniteSets, TLC

VARIABLES
    pc,                 \* position of the operation under analysis
    user_profile,       \* UserProfile of the case
    media_hits,         \* process_compliance_check: the vendor hits
    analyzed_articles,  \* process_compliance_check: list of ArticleAnalysis
    result,             \* ComplianceResult / returned value of the operation
    anchors,            \* anchors of the article under analysis
    article_date,       \* hit.date of the article under analysis
    verifications,      \* list of AnchorVerification
    contradictions,     \* list of rationale strings
    has_name_match,     \* analyze_name_match()[0]
    required_anchors,   \* analyze_name_match()[2]
    progress_logs       \* app.py: the module-level list of progress messages

vars == <<pc, user_profile, media_hits, analyzed_articles, result, anchors,
          article_date, verifications, contradictions, has_name_match,
          required_anchors, progress_logs>>

----------------------------------------------------------------------------
(* Python values *)

None == <<"<None>">>

\* truthiness of an Optional[str]: `if not s`
Falsy(s) == s = None \/ s = <<>>

\* JSON values of an oracle response.  A boolean field is "true", "false",
\* Missing (the key is absent) or NotABool (a value pydantic cannot coerce
\* to bool); a number field is a fraction, or one of the three below.
Missing == "<missing>"
NotABool == "<notbool>"

Frac(n, d) == [kind |-> "num", num |-> n, den |-> d]
MissingNumber == [kind |-> "missing", num |-> 0, den |-> 1]   \* key absent
JsonNull == [kind |-> "null", num |-> 0, den |-> 1]           \* JSON null
NotANumber == [kind |-> "str", num |-> 0, den |-> 1]          \* a JSON string

Last(s) == s[Len(s)]

Prefix(s, n) == SubSeq(s, 1, IF Len(s) < n THEN Len(s) ELSE n)

RECURSIVE Concat(_)
Concat(ss) == IF ss = <<>> THEN <<>> ELSE Head(ss) \o Concat(Tail(ss))

\* str.lower() on one unit
LowerUnit(u) ==
    CASE u = "John" -> "john"
      [] u = "Smith" -> "smith"
      [] u = "SMITH" -> "smith"
      [] u = "Ada" -> "ada"
      [] u = "Okonkwo" -> "okonkwo"
      [] u = "Bob" -> "bob"
      [] u = "Dr." -> "dr."
      [] u = "A" -> "a"
      [] u = "B" -> "b"
      [] u = "Name" -> "name"
      [] u = "Employer" -> "employer"
      [] OTHER -> u

\* str.lower()
Lower(s) == [i \in 1..Len(s) |-> LowerUnit(s[i])]

\* str.strip()
RECURSIVE LStrip(_)
LStrip(s) == IF s # <<>> /\ Head(s) = " " THEN LStrip(Tail(s)) ELSE s

RECURSIVE RStrip(_)
RStrip(s) == IF s # <<>> /\ Last(s) = " " THEN RStrip(SubSeq(s, 1, Len(s) - 1)) ELSE s

Strip(s) == RStrip(LStrip(s))

\* str.split(): the maximal runs between blanks (one word per unit here)
Split(s) == SelectSeq(s, LAMBDA u : u # " ")

\* " ".join(words)
RECURSIVE Join(_)
Join(ws) ==
    IF ws = <<>> THEN <<>>
    ELSE IF Len(ws) = 1 THEN <<ws[1]>>
    ELSE <<ws[1], " ">> \o Join(Tail(ws))

\* a in b  (Python substring test)
IsSubstring(a, b) ==
    \E i \in 0..(Len(b) - Len(a)) : SubSeq(b, i + 1, i + Len(a)) = a

----------------------------------------------------------------------------
(* utils.py *)

NoDate == [ok |-> FALSE]

\* dateutil.parser.parse(...).date() on the date literals of the model
DateOf(u) ==
    CASE u = "1985-03-15" -> [ok |-> TRUE, year |-> 1985, month |-> 3, day |-> 15]
      [] u = "15 March 1985" -> [ok |-> TRUE, year |-> 1985, month |-> 3, day |-> 15]
      [] u = "1985-11-20" -> [ok |-> TRUE, year |-> 1985, month |-> 11, day |-> 20]
      [] u = "1990-01-01" -> [ok |-> TRUE, year |-> 1990, month |-> 1, day |-> 1]
      [] u = "2024-11-15" -> [ok |-> TRUE, year |-> 2024, month |-> 11, day |-> 15]
      [] u = "2024-03-14" -> [ok |-> TRUE, year |-> 2024, month |-> 3, day |-> 14]
      [] u = "2025-05-30" -> [ok |-> TRUE, year |-> 2025, month |-> 5, day |-> 30]
      [] u = "2023-06-01" -> [ok |-> TRUE, year |-> 2023, month |-> 6, day |-> 1]
      [] u = "2019-01-10" -> [ok |-> TRUE, year |-> 2019, month |-> 1, day |-> 10]
      [] OTHER -> NoDate

parse_date(date_string) ==
    IF Falsy(date_string) THEN NoDate
    ELSE LET s == Strip(date_string)
         IN  IF Len(s) = 1 THEN DateOf(s[1]) ELSE NoDate

NoInt == [ok |-> FALSE]

\* int(str) on the number literals of the model; ValueError is ok = FALSE
IntOf(u) ==
    CASE u = "38" -> [ok |-> TRUE, val |-> 38]
      [] u = "39" -> [ok |-> TRUE, val |-> 39]
      [] u = "40" -> [ok |-> TRUE, val |-> 40]
      [] u = "41" -> [ok |-> TRUE, val |-> 41]
      [] u = "45" -> [ok |-> TRUE, val |-> 45]
      [] OTHER -> NoInt

ParseInt(s) ==
    LET t == Strip(s)
    IN  IF Len(t) = 1 THEN IntOf(t[1]) ELSE NoInt

\* date.today() of the run
Today == [ok |-> TRUE, year |-> 2025, month |-> 6, day |-> 1]

\* line 22: parse_date(reference_date) if reference_date else date.today()
calculate_age(birth_date, reference_date) ==
    LET birth_dt == parse_date(birth_date)
        ref_dt == IF Falsy(reference_date) THEN Today ELSE parse_date(reference_date)
    IN  IF ~birth_dt.ok THEN NoInt
        ELSE IF ~ref_dt.ok THEN NoInt
        ELSE LET age == ref_dt.year - birth_dt.year
             IN  IF \/ ref_dt.month < birth_dt.month
                    \/ (ref_dt.month = birth_dt.month /\ ref_dt.day < birth_dt.day)
                 THEN [ok |-> TRUE, val |-> age - 1]
                 ELSE [ok |-> TRUE, val |-> age]

\* one word through the two re.sub calls and lower() of normalize_name:
\* an honorific or suffix (with its dot) disappears, punctuation is removed
NormalizeWord(u) ==
    CASE u = "Dr." -> ""
      [] u = "dr" -> ""
      [] u = "Jr" -> ""
      [] u = "J.M." -> "jm"
      [] OTHER -> LowerUnit(u)

normalize_name(name) ==
    IF Falsy(name) THEN <<>>
    ELSE LET words == Split(name)
             cleaned == [i \in 1..Len(words) |-> NormalizeWord(words[i])]
         IN  Join(SelectSeq(cleaned, LAMBDA w : w # ""))

Range(s) == {s[i] : i \in 1..Len(s)}

\* the overlap coefficient: shared tokens over the smaller token set
OverlapSimilarity(name1, name2) ==
    LET tokens1 == Range(Split(normalize_name(name1)))
        tokens2 == Range(Split(normalize_name(name2)))
    IN  IF tokens1 = {} \/ tokens2 = {} THEN Frac(0, 1)
        ELSE Frac(Cardinality(tokens1 \cap tokens2),
                  IF Cardinality(tokens1) < Cardinality(tokens2)
                  THEN Cardinality(tokens1) ELSE Cardinality(tokens2))

\* calculate_name_similarity: the Jaccard ratio as a fraction num/den
calculate_name_similarity(name1, name2) ==
    LET norm1 == normalize_name(name1)
        norm2 == normalize_name(name2)
        tokens1 == Range(Split(norm1))
        tokens2 == Range(Split(norm2))
    IN  IF norm1 = <<>> \/ norm2 = <<>> THEN Frac(0, 1)
        ELSE IF tokens1 = {} \/ tokens2 = {} THEN Frac(0, 1)
        ELSE Frac(Cardinality(tokens1 \cap tokens2),
                  Cardinality(tokens1 \cup tokens2))

\* a < b, a >= b on fractions with positive denominators
FracLess(a, b) == a.num * b.den < b.num * a.den
FracGeq(a, b) == ~FracLess(a, b)

\* date.toordinal(): days of the proleptic Gregorian calendar
IsLeap(y) == (y % 4 = 0 /\ y % 100 # 0) \/ y % 400 = 0

DaysBeforeMonth(y, m) ==
    LET cum == <<0, 31, 59, 90, 120, 151, 181, 212, 243, 273, 304, 334>>
    IN  cum[m] + (IF m > 2 /\ IsLeap(y) THEN 1 ELSE 0)

ToOrdinal(d) ==
    LET y == d.year - 1
    IN  y * 365 + (y \div 4) - (y \div 100) + (y \div 400)
        + DaysBeforeMonth(d.year, d.month) + d.day

get_recency_bucket(date_string) ==
    LET article_dt == parse_date(date_string)
    IN  IF ~article_dt.ok THEN "unknown"
        ELSE LET days_diff == ToOrdinal(Today) - ToOrdinal(article_dt)
             IN  \* months_diff = days_diff / 30.44, compared with 12 and 36
                 IF days_diff * 100 < 12 * 3044 THEN "within 12 months"
                 ELSE IF days_diff * 100 < 36 * 3044 THEN "12-36 months"
                 ELSE "over 36 months"

----------------------------------------------------------------------------
(* config.py *)

COMMON_NAMES_THRESHOLD == 2
RARE_NAMES_THRESHOLD == 1

\* Config.COMMON_NAMES (the members the model's names can hit, and two more)
COMMON_NAMES == {"smith", "johnson", "williams", "brown", "jones", "lee"}

\* Config.is_common_name; name.split()[-1] raises IndexError on a name of
\* blanks only
is_common_name_raises(name) == ~Falsy(name) /\ Split(name) = <<>>

is_common_name(name) ==
    LET last_name == IF ~Falsy(name) THEN LowerUnit(Last(Split(name))) ELSE ""
    IN  last_name \in COMMON_NAMES

----------------------------------------------------------------------------
(* name_matcher.py *)

NameThresholdStrict == Frac(8, 10)

NameThreshold == Frac(7, 10)        \* the literal 0.7

\* Responses of the name-match oracle.  kind "exception": the API call or
\* json.loads raised.  kind "json": the decoded object, each field present
\* with a value, or Missing.
NameOracleResponses ==
    {[kind |-> "exception", is_match |-> Missing, confidence |-> MissingNumber]}
    \cup [kind : {"json"},
          is_match : {"true", "false", Missing},
          confidence : {Frac(0, 1), Frac(69, 100), Frac(7, 10), Frac(9, 10),
                        MissingNumber, JsonNull, NotANumber}]

IsNumber(c) == c.kind = "num"

\* the fallback loop of _ai_name_match (lines 118-126): strict > keeps the
\* first best pair
RECURSIVE BestSimilarity(_, _, _)
BestSimilarity(pairs, best_score, best_name) ==
    IF pairs = <<>> THEN [score |-> best_score, name |-> best_name]
    ELSE LET similarity == calculate_name_similarity(Head(pairs)[1], Head(pairs)[2])
         IN  IF FracLess(best_score, similarity)
             THEN BestSimilarity(Tail(pairs), similarity, Head(pairs)[1])
             ELSE BestSimilarity(Tail(pairs), best_score, best_name)

\* [(name_anchor, user_name) for name_anchor in article_names for user_name in user_names]
NamePairs(article_names, user_names) ==
    Concat([i \in 1..Len(article_names) |->
              [j \in 1..Len(user_names) |-> <<article_names[i], user_names[j]>>]])

_ai_name_match(user_names, article_names, oracle) ==
    IF oracle.kind = "json"
    THEN [is_match |-> oracle.is_match = "true",     \* .get("is_match", False)
          confidence |-> IF oracle.confidence = MissingNumber THEN Frac(0, 1)
                         ELSE oracle.confidence,
          via |-> "oracle"]
    ELSE LET best == BestSimilarity(NamePairs(article_names, user_names),
                                    Frac(0, 1), <<>>)
         IN  [is_match |-> FracGeq(best.score, NameThreshold),
              confidence |-> best.score,
              via |-> "fallback"]

Raised(what) == [raised |-> TRUE, error |-> what]

NameAnchors(anchor_list) == SelectSeq(anchor_list, LAMBDA a : a.anchor_type = "name")

UserNames(profile) == <<profile.full_name>> \o profile.aliases

AnchorValues(anchor_list) == [i \in 1..Len(anchor_list) |-> anchor_list[i].value]

RequiredAnchorsAnyName(profile) ==
    IF \E i \in 1..Len(UserNames(profile)) : is_common_name(UserNames(profile)[i])
    THEN COMMON_NAMES_THRESHOLD ELSE RARE_NAMES_THRESHOLD

\* lines 44-45 of analyze_name_match
RequiredAnchorsFor(profile) ==
    IF is_common_name(profile.full_name)
    THEN COMMON_NAMES_THRESHOLD ELSE RARE_NAMES_THRESHOLD

\* analyze_name_match(user_profile, anchors) with the oracle's response
analyze_name_match(profile, anchor_list, oracle) ==
    LET name_anchors == NameAnchors(anchor_list)
        ai_match_result == _ai_name_match(UserNames(profile),
                                          AnchorValues(name_anchors), oracle)
        best_match_score == ai_match_result.confidence
    IN  IF name_anchors = <<>>
        THEN [raised |-> FALSE, has_name_match |-> FALSE,
              name_analysis |-> "No name mentions found in article",
              required_anchors |-> 0, asked |-> FALSE]
        ELSE IF ai_match_result.is_match = TRUE
        THEN \* `or` short-circuits: the confidence is not compared
             IF is_common_name_raises(profile.full_name)
             THEN Raised("IndexError")
             ELSE [raised |-> FALSE, has_name_match |-> TRUE,
                   name_analysis |-> "needs anchors",
                   required_anchors |-> RequiredAnchorsFor(profile), asked |-> TRUE]
        ELSE IF ~IsNumber(best_match_score)
        THEN Raised("TypeError")     \* None >= 0.7, "high" >= 0.7
        ELSE IF FracGeq(best_match_score, NameThreshold)
        THEN IF is_common_name_raises(profile.full_name)
             THEN Raised("IndexError")
             ELSE [raised |-> FALSE, has_name_match |-> TRUE,
                   name_analysis |-> "needs anchors",
                   required_anchors |-> RequiredAnchorsFor(profile), asked |-> TRUE]
        ELSE [raised |-> FALSE, has_name_match |-> FALSE,
              name_analysis |-> "No name match",
              required_anchors |-> 0, asked |-> TRUE]

----------------------------------------------------------------------------
(* decision_engine.py: the rule-based verifiers *)

\* models.py.  An IdentityAnchor is [anchor_type, value]; its confidence and
\* source_text are sent to the oracles and read by no decision.  A
\* UserProfile is [full_name, date_of_birth, city, employer, id_data,
\* aliases]; id_data is the list of the dict's items, empty for None or {}.
Anchor(t, v) == [anchor_type |-> t, value |-> v]

Verdict(m, c, r) == [matches |-> m, conflict |-> c, rationale |-> r]

AnchorVerification(a, m, c, r) ==
    [anchor |-> a, matches |-> m, conflict |-> c, rationale |-> r]

_verify_name(profile, anchor_value) ==
    LET user_names == UserNames(profile)
        norm_anchor == normalize_name(anchor_value)
    IN  IF \E i \in 1..Len(user_names) :
               LET norm_user == normalize_name(user_names[i])
               IN  IsSubstring(norm_anchor, norm_user) \/ IsSubstring(norm_user, norm_anchor)
        THEN Verdict(TRUE, FALSE, <<"name matches: '">> \o anchor_value
                                  \o <<"' found in user names">>)
        ELSE Verdict(FALSE, FALSE, <<"name '">> \o anchor_value
                                   \o <<"' not found in user profile">>)

_verify_employer(profile, anchor_value) ==
    IF Falsy(profile.employer)
    THEN Verdict(FALSE, FALSE, <<"employer: not stated in profile">>)
    ELSE LET user_employer == Lower(profile.employer)
             anchor_employer == Lower(anchor_value)
         IN  IF \/ IsSubstring(anchor_employer, user_employer)
                \/ IsSubstring(user_employer, anchor_employer)
             THEN Verdict(TRUE, FALSE, <<"employer: matches (">> \o anchor_value \o <<")">>)
             ELSE Verdict(FALSE, TRUE, <<"employer: conflict (profile: ">> \o profile.employer
                                       \o <<" vs article: ">> \o anchor_value \o <<")">>)

\* a city rule that matches equal names only
CityExactMatch(profile, anchor_value) ==
    IF Falsy(profile.city)
    THEN Verdict(FALSE, FALSE, <<"city: not stated in profile">>)
    ELSE IF Lower(profile.city) = Lower(anchor_value)
    THEN Verdict(TRUE, FALSE, <<"city: matches (">> \o anchor_value \o <<")">>)
    ELSE Verdict(FALSE, TRUE, <<"city: conflict (profile: ">> \o profile.city
                              \o <<" vs article: ">> \o anchor_value \o <<")">>)

_verify_city(profile, anchor_value) ==
    IF Falsy(profile.city)
    THEN Verdict(FALSE, FALSE, <<"city: not stated in profile">>)
    ELSE LET user_city == Lower(profile.city)
             anchor_city == Lower(anchor_value)
         IN  IF \/ IsSubstring(anchor_city, user_city)
                \/ IsSubstring(user_city, anchor_city)
             THEN Verdict(TRUE, FALSE, <<"city: matches (">> \o anchor_value \o <<")">>)
             ELSE Verdict(FALSE, TRUE, <<"city: conflict (profile: ">> \o profile.city
                                       \o <<" vs article: ">> \o anchor_value \o <<")">>)

_verify_dob(profile, anchor_value) ==
    IF Falsy(profile.date_of_birth)
    THEN Verdict(FALSE, FALSE, <<"dob: not stated in profile">>)
    ELSE LET user_dob == parse_date(profile.date_of_birth)
             anchor_dob == parse_date(anchor_value)
         IN  IF ~anchor_dob.ok
             THEN Verdict(FALSE, FALSE, <<"dob: could not parse '">> \o anchor_value \o <<"'">>)
             ELSE IF user_dob = anchor_dob
             THEN Verdict(TRUE, FALSE, <<"dob: matches (">> \o anchor_value \o <<")">>)
             ELSE Verdict(FALSE, TRUE, <<"dob: conflict (profile: ">> \o profile.date_of_birth
                                       \o <<" vs article: ">> \o anchor_value \o <<")">>)

Abs(n) == IF n < 0 THEN -n ELSE n

_verify_age(profile, anchor_value, date_string) ==
    IF Falsy(profile.date_of_birth)
    THEN Verdict(FALSE, FALSE, <<"age: cannot verify, no DOB in profile">>)
    ELSE LET article_age == ParseInt(anchor_value)
             expected_age == calculate_age(profile.date_of_birth, date_string)
         IN  IF ~article_age.ok
             THEN Verdict(FALSE, FALSE, <<"age: could not parse '">> \o anchor_value \o <<"'">>)
             ELSE IF ~expected_age.ok
             THEN Verdict(FALSE, FALSE, <<"age: could not calculate expected age">>)
             ELSE IF Abs(article_age.val - expected_age.val) <= 1
             THEN Verdict(TRUE, FALSE, <<"age: matches (article: ", ToString(article_age.val),
                                         ", expected: ", ToString(expected_age.val), ")">>)
             ELSE Verdict(FALSE, TRUE, <<"age: conflict (article: ", ToString(article_age.val),
                                         ", expected: ", ToString(expected_age.val), ")">>)

_verify_title(profile, anchor_value) ==
    Verdict(FALSE, FALSE, <<"title: not verifiable ('">> \o anchor_value \o <<"' mentioned)">>)

_verify_id(profile, anchor_value) ==
    IF profile.id_data = <<>>
    THEN Verdict(FALSE, FALSE, <<"id: not verifiable ('">> \o anchor_value \o <<"' mentioned)">>)
    ELSE IF \E i \in 1..Len(profile.id_data) :
                \/ IsSubstring(anchor_value, profile.id_data[i].id_value)
                \/ IsSubstring(profile.id_data[i].id_value, anchor_value)
    THEN LET first == CHOOSE i \in 1..Len(profile.id_data) :
                         /\ \/ IsSubstring(anchor_value, profile.id_data[i].id_value)
                            \/ IsSubstring(profile.id_data[i].id_value, anchor_value)
                         /\ \A j \in 1..(i - 1) :
                               ~(\/ IsSubstring(anchor_value, profile.id_data[j].id_value)
                                 \/ IsSubstring(profile.id_data[j].id_value, anchor_value))
         IN  Verdict(TRUE, FALSE, <<"id: matches ", profile.id_data[first].id_type>>)
    ELSE Verdict(FALSE, FALSE, <<"id: no match found for '">> \o anchor_value \o <<"'">>)

\* lines 53-76 of _verify_single_anchor: dispatch on the lowercased type
RuleVerdict(profile, anchor, date_string) ==
    LET anchor_type == LowerUnit(anchor.anchor_type)
        anchor_value == Strip(anchor.value)
    IN  CASE anchor_type = "name" -> _verify_name(profile, anchor_value)
          [] anchor_type = "employer" -> _verify_employer(profile, anchor_value)
          [] anchor_type = "city" -> _verify_city(profile, anchor_value)
          [] anchor_type = "dob" -> _verify_dob(profile, anchor_value)
          [] anchor_type = "age" -> _verify_age(profile, anchor_value, date_string)
          [] anchor_type = "title" -> _verify_title(profile, anchor_value)
          [] anchor_type = "id" -> _verify_id(profile, anchor_value)
          [] OTHER -> Verdict(FALSE, FALSE, <<"Unknown anchor type: ", anchor_type>>)

----------------------------------------------------------------------------
(* decision_engine.py: the verification oracle paths *)

IntIndex(n) == [kind |-> "int", val |-> n]
MissingIndex == [kind |-> "missing", val |-> 0]     \* no "index" key
BadIndex == [kind |-> "str", val |-> 0]             \* "index": "first"

\* pydantic's validation of a bool field after .get(key, False)
BoolOk(v) == v # NotABool
BoolOf(v) == v = "true"

\* f"{x:.2f}" raises on None and on a str
FormatOk(confidence) == confidence.kind \in {"num", "missing"}

AIRationale(text) == <<"AI: ">> \o text \o <<" (confidence)">>

\* _ai_verify_anchor: the dict it returns
_ai_verify_anchor(profile, anchor, date_string, oracle) ==
    IF oracle.kind = "json" /\ FormatOk(oracle.confidence)
    THEN [success |-> TRUE,
          matches |-> IF oracle.matches = Missing THEN "false" ELSE oracle.matches,
          conflict |-> IF oracle.conflict = Missing THEN "false" ELSE oracle.conflict,
          rationale |-> AIRationale(oracle.rationale)]
    ELSE [success |-> FALSE, matches |-> "false", conflict |-> "false", rationale |-> <<>>]

\* _verify_single_anchor; the AnchorVerification of lines 46-51 is built
\* outside any try, so a value that is no bool raises a ValidationError
_verify_single_anchor(profile, anchor, date_string, oracle) ==
    LET ai_result == _ai_verify_anchor(profile, anchor, date_string, oracle)
        rule == RuleVerdict(profile, anchor, date_string)
    IN  IF ai_result.success
        THEN IF BoolOk(ai_result.matches) /\ BoolOk(ai_result.conflict)
             THEN [raised |-> FALSE,
                   verification |-> AnchorVerification(anchor, BoolOf(ai_result.matches),
                                        BoolOf(ai_result.conflict), ai_result.rationale)]
             ELSE Raised("ValidationError")
        ELSE [raised |-> FALSE,
              verification |-> AnchorVerification(anchor, rule.matches, rule.conflict,
                                                  rule.rationale)]

\* the loop of lines 363-373 over result["verifications"]; ok = FALSE when an
\* entry raises inside the try
RECURSIVE BatchLoop(_, _, _)
BatchLoop(entries, anchor_list, acc) ==
    IF entries = <<>> THEN [ok |-> TRUE, verifications |-> acc]
    ELSE LET verification_data == Head(entries)
             index == verification_data.index
             anchor_index == IF index.kind = "missing" THEN 0 ELSE index.val
             n == Len(anchor_list)
         IN  IF index.kind = "str" THEN [ok |-> FALSE, verifications |-> <<>>]
             ELSE IF ~(anchor_index < n) THEN BatchLoop(Tail(entries), anchor_list, acc)
             ELSE IF anchor_index < -n THEN [ok |-> FALSE, verifications |-> <<>>]
             ELSE IF ~( /\ BoolOk(verification_data.matches)
                        /\ BoolOk(verification_data.conflict)
                        /\ FormatOk(verification_data.confidence) )
             THEN [ok |-> FALSE, verifications |-> <<>>]
             ELSE LET anchor == IF anchor_index >= 0
                                THEN anchor_list[anchor_index + 1]
                                ELSE anchor_list[n + anchor_index + 1]
                      verification ==
                          AnchorVerification(anchor, BoolOf(verification_data.matches),
                                             BoolOf(verification_data.conflict),
                                             AIRationale(verification_data.rationale))
                  IN  BatchLoop(Tail(entries), anchor_list, Append(acc, verification))

\* _ai_verify_all_anchors: {"success": ..., "verifications": ...}
_ai_verify_all_anchors(profile, anchor_list, date_string, oracle) ==
    IF oracle.kind # "json" THEN [success |-> FALSE, verifications |-> <<>>]
    ELSE LET entries == IF oracle.has_verifications THEN oracle.verifications ELSE <<>>
             looped == BatchLoop(entries, anchor_list, <<>>)
         IN  [success |-> looped.ok, verifications |-> looped.verifications]

\* the fallback loop of verify_anchors (lines 32-37); stops at the first raise
RECURSIVE FallbackLoop(_, _, _, _, _)
FallbackLoop(profile, anchor_list, date_string, singles, acc) ==
    IF anchor_list = <<>> THEN [raised |-> FALSE, verifications |-> acc, path |-> "fallback"]
    ELSE LET one == _verify_single_anchor(profile, Head(anchor_list), date_string,
                                          Head(singles))
         IN  IF one.raised THEN [raised |-> TRUE, verifications |-> <<>>, path |-> "fallback"]
             ELSE FallbackLoop(profile, Tail(anchor_list), date_string, Tail(singles),
                               Append(acc, one.verification))

\* verify_anchors; batch is the batch oracle's response, singles the
\* per-anchor oracle's response for each anchor (asked only in the fallback)
verify_anchors(profile, anchor_list, date_string, batch, singles) ==
    LET batch_result == _ai_verify_all_anchors(profile, anchor_list, date_string, batch)
    IN  IF batch_result.success
        THEN [raised |-> FALSE, verifications |-> batch_result.verifications,
              path |-> "batch"]
        ELSE FallbackLoop(profile, anchor_list, date_string, singles, <<>>)

detect_contradictions(verification_list) ==
    LET conflicting == SelectSeq(verification_list, LAMBDA v : v.conflict)
    IN  [i \in 1..Len(conflicting) |-> conflicting[i].rationale]

----------------------------------------------------------------------------
(* decision_engine.py: make_linkage_decision *)

NonNameMatches(verification_list) ==
    SelectSeq(verification_list, LAMBDA v : v.matches /\ v.anchor.anchor_type # "name")

\* f"{v.anchor.anchor_type}:{v.anchor.value}" for each v
AnchorList(verification_list) ==
    [i \in 1..Len(verification_list) |->
        <<verification_list[i].anchor.anchor_type, ":">> \o verification_list[i].anchor.value]

\* the rationale is [text, count, cited]: the fixed words, match_count where
\* it is printed (else 0), and the joined list that follows
Linkage(decision, text, count, cited) ==
    [decision |-> decision, rationale |-> [text |-> text, count |-> count, cited |-> cited]]

OverrulesConflictAtThreshold(match_count, required) == match_count >= required

\* line 201: "multiple stronger anchors can overrule"
OverrulesConflict(match_count, required) == match_count >= required + 1

MeetsThresholdStrictly(match_count, required) == match_count > required

\* line 210
MeetsThreshold(match_count, required) == match_count >= required

NameGateOpen(name_match) == FALSE

\* line 192
NameGate(name_match) == ~name_match

make_linkage_decision(verification_list, contradiction_list, required, name_match) ==
    LET non_name_matches == NonNameMatches(verification_list)
        match_count == Len(non_name_matches)
    IN  IF NameGate(name_match)
        THEN Linkage("no", "Linkage: no - no name match found", 0, <<>>)
        ELSE IF contradiction_list # <<>>
        THEN IF OverrulesConflict(match_count, required)
             THEN Linkage("maybe", "Linkage: maybe - N anchors match but conflicts exist: ",
                          match_count, Prefix(contradiction_list, 2))
             ELSE Linkage("no", "Linkage: no - conflicts detected: ", 0,
                          Prefix(contradiction_list, 2))
        ELSE IF MeetsThreshold(match_count, required)
        THEN Linkage("yes", "Linkage: yes - name match + N anchors", match_count,
                     AnchorList(Prefix(non_name_matches, 3)))
        ELSE IF match_count > 0
        THEN Linkage("maybe", "Linkage: maybe - name match + N anchors below threshold",
                     match_count, AnchorList(non_name_matches))
        ELSE Linkage("no", "Linkage: no - name match only, no supporting anchors", 0, <<>>)

----------------------------------------------------------------------------
(* anchor_extractor.py *)

\* extract_anchors_and_summary: the anchors it returns.  The response is
\* [kind, anchors]; each entry of anchors is [anchor_type, value,
\* confidence_ok].  A missing anchor_type defaults to "unknown"; a confidence
\* that float() or the IdentityAnchor validator rejects raises inside the
\* try, and the except returns no anchors at all.
extract_anchors(oracle) ==
    IF oracle.kind # "json" THEN <<>>
    ELSE IF \E i \in 1..Len(oracle.anchors) : ~oracle.anchors[i].confidence_ok THEN <<>>
    ELSE [i \in 1..Len(oracle.anchors) |->
            Anchor(IF oracle.anchors[i].anchor_type = Missing THEN "unknown"
                   ELSE oracle.anchors[i].anchor_type,
                   oracle.anchors[i].value)]

----------------------------------------------------------------------------
(* compliance_agent.py *)

\* A MediaHit is [title, date]; an ArticleAnalysis is [hit, anchors,
\* anchor_verifications, contradictions, linkage_decision, linkage_rationale,
\* outcome_type, recency_note].  brief_summary, category_type,
\* credibility_note and the 3-line rationale are audit text no decision reads.
RecencyNote(hit) == <<"Recency: ", get_recency_bucket(hit.date), " (">> \o hit.date \o <<")">>

OutcomeConvicted(hit) == "convicted"

\* lines 115-117: outcome classification is skipped, OutcomeType.NONE
OutcomeOf(hit) == "none"

\* lines 133-145: the ArticleAnalysis
ArticleAnalysis(hit, anchor_list, verification_list, contradiction_list, linkage) ==
    [raised |-> FALSE,
     analysis |-> [hit |-> hit,
                   anchors |-> anchor_list,
                   anchor_verifications |-> verification_list,
                   contradictions |-> contradiction_list,
                   linkage_decision |-> linkage.decision,
                   linkage_rationale |-> linkage.rationale,
                   outcome_type |-> OutcomeOf(hit),
                   recency_note |-> RecencyNote(hit)]]

\* lines 106-112: contradiction scan and linkage decision
DecideLinkage(hit, anchor_list, name, verification_list, contradiction_list) ==
    ArticleAnalysis(hit, anchor_list, verification_list, contradiction_list,
                    make_linkage_decision(verification_list, contradiction_list,
                                          name.required_anchors, name.has_name_match))

\* an exception of step 4 or step 5 leaves _analyze_single_article
AfterVerification(hit, anchor_list, name, verified) ==
    IF name.raised THEN Raised(name.error)
    ELSE IF verified.raised THEN Raised("ValidationError")
    ELSE DecideLinkage(hit, anchor_list, name, verified.verifications,
                       detect_contradictions(verified.verifications))

\* lines 95 and 100: name match, then anchor verification
AfterExtraction(profile, hit, anchor_list, name_oracle, batch, single) ==
    AfterVerification(hit, anchor_list,
                      analyze_name_match(profile, anchor_list, name_oracle),
                      verify_anchors(profile, anchor_list, hit.date, batch,
                                     [i \in 1..Len(anchor_list) |-> single]))

\* _analyze_single_article with the responses of the four oracles (single is
\* the per-anchor oracle's response, the same for each anchor of the article)
_analyze_single_article(profile, hit, extraction, name_oracle, batch, single) ==
    AfterExtraction(profile, hit, extract_anchors(extraction), name_oracle, batch, single)

\* a clustering that keeps the last article of each publication date
OnePerDate(articles) ==
    SelectSeq(articles, LAMBDA a :
        \A i \in 1..Len(articles) :
            articles[i].hit.date = a.hit.date => \A j \in 1..(i - 1) : articles[j] # a)

\* lines 170-174: no clustering is implemented
_cluster_duplicates(articles) == articles

\* one article's contribution, in tenths (20 is 200)
ArticleScore(article) ==
    LET base == 200
        by_outcome == IF article.outcome_type \in {"convicted", "regulator_order"}
                      THEN base * 3
                      ELSE IF article.outcome_type = "charged" THEN base * 2
                      ELSE IF article.outcome_type = "investigation" THEN (base * 15) \div 10
                      ELSE base
        by_linkage == IF article.linkage_decision = "yes" THEN (by_outcome * 15) \div 10
                      ELSE by_outcome
    IN  IF IsSubstring(<<"within 12 months">>, article.recency_note)
        THEN (by_linkage * 15) \div 10
        ELSE IF IsSubstring(<<"12-36 months">>, article.recency_note)
        THEN (by_linkage * 12) \div 10
        ELSE by_linkage

RECURSIVE SumScores(_)
SumScores(articles) ==
    IF articles = <<>> THEN 0 ELSE ArticleScore(Head(articles)) + SumScores(Tail(articles))

Min(a, b) == IF a < b THEN a ELSE b

CapScoreUncapped(tenths) == tenths \div 10

\* line 213: score = min(100, int(score))
CapScore(tenths) == Min(100, tenths \div 10)

EmptyCaseScoreZero(accepted) ==
    [decision |-> "clear", score |-> 0, rationale |-> "no linked adverse media found"]

\* line 180
EmptyCase(accepted) ==
    [decision |-> "clear", score |-> 10, rationale |-> "no linked adverse media found"]

ScoreEscalatesAbove(score) == score > 60

ScoreEscalatesFromForty(score) == score >= 40

\* line 221
ScoreEscalates(score) == score >= 60

_make_overall_decision(accepted) ==
    IF accepted = <<>>
    THEN EmptyCase(accepted)
    ELSE LET score == CapScore(SumScores(accepted))
             severe_outcomes == SelectSeq(accepted, LAMBDA a :
                                   a.outcome_type \in {"convicted", "regulator_order"})
         IN  IF \E i \in 1..Len(severe_outcomes) : severe_outcomes[i].linkage_decision = "yes"
             THEN [decision |-> "decline", score |-> score,
                   rationale |-> "convicted/regulator order within lookback with yes linkage"]
             ELSE IF \E i \in 1..Len(accepted) :
                        accepted[i].outcome_type \in {"charged", "investigation"}
             THEN [decision |-> "escalate", score |-> score,
                   rationale |-> "charged/investigated with linkage"]
             ELSE IF ScoreEscalates(score)
             THEN [decision |-> "escalate", score |-> score,
                   rationale |-> "multiple adverse findings with linkage"]
             ELSE [decision |-> "clear", score |-> score,
                   rationale |-> "only weak allegations or maybe linkage"]

\* kw in s.lower(), for the three keywords of _generate_targeted_ask
UnitMentions(u, kw) ==
    CASE kw = "dob" -> u \in {"dob: conflict (profile: ", "the dob differs"}
      [] kw = "age" -> u \in {"age: conflict (article: ", "the age differs",
                              "the manager's employer differs"}
      [] kw = "employer" -> u \in {"employer: conflict (profile: ",
                                   "the manager's employer differs"}
      [] OTHER -> FALSE

Mentions(s, kw) == \E i \in 1..Len(s) : UnitMentions(LowerUnit(s[i]), kw)

AnchorTypes(article) == {article.anchors[i].anchor_type : i \in 1..Len(article.anchors)}

\* the missing_anchors list built by the loop of lines 236-244
RECURSIVE MissingAnchors(_)
MissingAnchors(accepted) ==
    IF accepted = <<>> THEN <<>>
    ELSE LET anchor_types == AnchorTypes(Head(accepted))
         IN  (IF "dob" \notin anchor_types /\ "age" \notin anchor_types
              THEN <<"DOB/age verification">> ELSE <<>>)
             \o (IF "employer" \notin anchor_types
                 THEN <<"employment verification">> ELSE <<>>)
             \o MissingAnchors(Tail(accepted))

_generate_targeted_ask(accepted) ==
    LET all_contradictions == Concat([i \in 1..Len(accepted) |-> accepted[i].contradictions])
        missing_anchors == MissingAnchors(accepted)
        by_missing == IF missing_anchors # <<>>
                      THEN <<"Request: additional documentation to verify ",
                             missing_anchors[1]>>
                      ELSE <<"Request: manual review of linkage assessment">>
    IN  IF all_contradictions # <<>>
        THEN LET primary_contradiction == all_contradictions[1]
             IN  IF Mentions(primary_contradiction, "dob")
                 THEN <<"Request: government ID to confirm DOB">>
                 ELSE IF Mentions(primary_contradiction, "age")
                 THEN <<"Request: government ID to confirm age">>
                 ELSE IF Mentions(primary_contradiction, "employer")
                 THEN <<"Request: employment verification to resolve employer contradiction">>
                 ELSE by_missing
        ELSE by_missing

FinalMemoOfAllArticles(profile, accepted, final_decision, targeted_ask) ==
    [decision |-> final_decision,
     articles |-> [i \in 1..Len(accepted) |->
                     [title |-> accepted[i].hit.title,
                      date |-> accepted[i].hit.date,
                      linkage |-> accepted[i].linkage_decision,
                      outcome |-> accepted[i].outcome_type,
                      contradiction |-> IF accepted[i].contradictions # <<>>
                                        THEN accepted[i].contradictions[1] ELSE <<>>]],
     next_step |-> IF targeted_ask # <<>> THEN targeted_ask
                   ELSE <<"Review complete, no further action required.">>]

\* _generate_final_memo: the decision line, one entry per listed article and
\* the next-step line (the completion timestamp is left out)
_generate_final_memo(profile, accepted, final_decision, targeted_ask) ==
    [decision |-> final_decision,
     articles |-> [i \in 1..Len(Prefix(accepted, 5)) |->
                     [title |-> accepted[i].hit.title,
                      date |-> accepted[i].hit.date,
                      linkage |-> accepted[i].linkage_decision,
                      outcome |-> accepted[i].outcome_type,
                      contradiction |-> IF accepted[i].contradictions # <<>>
                                        THEN accepted[i].contradictions[1] ELSE <<>>]],
     next_step |-> IF targeted_ask # <<>> THEN targeted_ask
                   ELSE <<"Review complete, no further action required.">>]

TargetedAskUnlessClear(final_decision, accepted) ==
    IF final_decision # "clear" THEN _generate_targeted_ask(accepted) ELSE None

\* line 66
TargetedAskFor(final_decision, accepted) ==
    IF final_decision = "escalate" THEN _generate_targeted_ask(accepted) ELSE None

\* lines 51-82 of process_compliance_check: the ComplianceResult
ComplianceResult(profile, hits, analyzed) ==
    LET deduplicated_articles == _cluster_duplicates(analyzed)
        accepted_articles == SelectSeq(deduplicated_articles,
                                 LAMBDA a : a.linkage_decision \in {"yes", "maybe"})
        rejected_articles == SelectSeq(deduplicated_articles,
                                 LAMBDA a : a.linkage_decision = "no")
        overall == _make_overall_decision(accepted_articles)
        targeted_ask == TargetedAskFor(overall.decision, accepted_articles)
    IN  [total_hits |-> Len(hits),
         analyzed_articles |-> deduplicated_articles,
         matched_hits |-> accepted_articles,
         non_matched_hits |-> rejected_articles,
         final_decision |-> overall.decision,
         decision_score |-> overall.score,
         overall_rationale |-> overall.rationale,
         targeted_ask |-> targeted_ask,
         final_memo |-> _generate_final_memo(profile, accepted_articles, overall.decision,
                            IF targeted_ask = None THEN <<>> ELSE targeted_ask)]

----------------------------------------------------------------------------
(* The case pipeline: process_compliance_check *)

MaxHits == 2

JohnSmith == <<"John", " ", "Smith">>
AdaOkonkwo == <<"Ada", " ", "Okonkwo">>
AdaSmith == <<"Ada", " ", "Smith">>

ProfileSmith ==
    [full_name |-> JohnSmith, date_of_birth |-> <<"1985-03-15">>, city |-> <<"B", "a">>,
     employer |-> <<"A", "b">>, id_data |-> <<>>, aliases |-> <<>>]

ProfileOkonkwo ==
    [full_name |-> AdaOkonkwo, date_of_birth |-> None, city |-> None,
     employer |-> <<"A", "b">>, id_data |-> <<>>, aliases |-> <<AdaSmith>>]

CaseProfiles == {ProfileSmith, ProfileOkonkwo}

\* hit.date: within 12 months of Today, 12-36 months, over 36 months
HitDates == {<<"2025-05-30">>, <<"2023-06-01">>, <<"2019-01-10">>}

SeqsUpTo(S, n) == UNION {[1..k -> S] : k \in 0..n}

\* the hits of a case: title i is "hit i"
HitLists ==
    {[i \in 1..Len(dates) |-> [title |-> <<"hit ", ToString(i)>>, date |-> dates[i]]] :
        dates \in SeqsUpTo(HitDates, MaxHits)}

Extracted(entries) == [kind |-> "json", anchors |-> entries]
Entry(t, v) == [anchor_type |-> t, value |-> v, confidence_ok |-> TRUE]
ExtractionFailed == [kind |-> "exception", anchors |-> <<>>]

NameSays(m, c) == [kind |-> "json", is_match |-> m, confidence |-> c]
NameFailed == [kind |-> "exception", is_match |-> Missing, confidence |-> MissingNumber]

BatchSays(entries) == [kind |-> "json", has_verifications |-> TRUE, verifications |-> entries]
BatchNoKey == [kind |-> "json", has_verifications |-> FALSE, verifications |-> <<>>]
BatchFailed == [kind |-> "exception", has_verifications |-> FALSE, verifications |-> <<>>]
BatchEntry(i, m, c, text) ==
    [index |-> i, matches |-> m, conflict |-> c, rationale |-> <<text>>,
     confidence |-> Frac(9, 10)]

AnchorSays(m, c, text) ==
    [kind |-> "json", matches |-> m, conflict |-> c, rationale |-> <<text>>,
     confidence |-> Frac(9, 10)]
AnchorFailed ==
    [kind |-> "exception", matches |-> Missing, conflict |-> Missing, rationale |-> <<>>,
     confidence |-> MissingNumber]

Oracles(e, n, b, a) == [extraction |-> e, name |-> n, batch |-> b, single |-> a]

\* What the oracles answer for one article of a case about `profile`
ArticleScenarios(profile) ==
    LET name == Entry("name", profile.full_name)
        corroborated == Extracted(<<name, Entry("dob", <<"15 March 1985">>),
                                    Entry("employer", <<"a", "b">>)>>)
        contradicted == Extracted(<<name, Entry("employer", <<"c">>),
                                    Entry("dob", <<"1985-03-15">>)>>)
        employer_only == Extracted(<<name, Entry("employer", <<"a", "b">>)>>)
        aged == Extracted(<<name, Entry("age", <<"45">>), Entry("employer", <<"A">>),
                            Entry("city", <<"b", "a">>)>>)
        invalid == Extracted(<<name, [anchor_type |-> "dob", value |-> <<"1985-03-15">>,
                                      confidence_ok |-> FALSE]>>)
        \* the name, extracted twice, once typed "Name"
        named_twice == Extracted(<<name, Entry("Name", profile.full_name)>>)
        yes == NameSays("true", Frac(9, 10))
    IN  { Oracles(ExtractionFailed, NameFailed, BatchFailed, AnchorFailed),
          Oracles(named_twice, yes, BatchFailed, AnchorFailed),
          Oracles(invalid, yes, BatchFailed, AnchorFailed),
          Oracles(corroborated, yes, BatchFailed, AnchorFailed),
          Oracles(contradicted, yes, BatchFailed, AnchorFailed),
          Oracles(employer_only, yes, BatchFailed, AnchorFailed),
          Oracles(aged, yes, BatchFailed, AnchorFailed),
          Oracles(corroborated, NameSays("false", JsonNull), BatchFailed, AnchorFailed),
          Oracles(corroborated, NameSays("false", Frac(0, 1)), BatchFailed, AnchorFailed),
          Oracles(corroborated, NameFailed,
                  BatchSays(<<BatchEntry(IntIndex(0), "true", "false", "same person"),
                              BatchEntry(IntIndex(1), "true", "false", "same date"),
                              BatchEntry(IntIndex(2), "true", "false", "same company")>>),
                  AnchorFailed),
          Oracles(contradicted, yes,
                  BatchSays(<<BatchEntry(IntIndex(1), "true", "true", "the employer differs"),
                              BatchEntry(IntIndex(2), "true", "false", "same date")>>),
                  AnchorFailed),
          Oracles(corroborated, yes, BatchNoKey, AnchorFailed),
          Oracles(aged, yes, BatchFailed, AnchorSays(NotABool, "false", "unsure")),
          Oracles(aged, yes, BatchFailed, AnchorSays("true", "false", "plausible")) }

NoResult == [kind |-> "none"]

Init ==
    /\ pc = "analyze"
    /\ user_profile \in CaseProfiles
    /\ media_hits \in HitLists
    /\ analyzed_articles = <<>>
    /\ result = NoResult
    /\ anchors = <<>>
    /\ article_date = None
    /\ verifications = <<>>
    /\ contradictions = <<>>
    /\ has_name_match = FALSE
    /\ required_anchors = 0
    /\ progress_logs = <<>>

\* one turn of the loop of lines 47-49: the article is analyzed and appended
AnalyzeArticle ==
    /\ pc = "analyze"
    /\ Len(analyzed_articles) < Len(media_hits)
    /\ \E o \in ArticleScenarios(user_profile) :
          LET hit == media_hits[Len(analyzed_articles) + 1]
              r == _analyze_single_article(user_profile, hit, o.extraction, o.name,
                                           o.batch, o.single)
          IN  /\ ~r.raised
              /\ analyzed_articles' = Append(analyzed_articles, r.analysis)
    /\ UNCHANGED <<progress_logs, pc, user_profile, media_hits, result, anchors,
                   article_date, verifications, contradictions, has_name_match,
                   required_anchors>>

\* the analysis of an article raises: nothing in _analyze_single_article or
\* process_compliance_check catches, and app.py answers HTTP 500
AnalyzeArticleRaises ==
    /\ pc = "analyze"
    /\ Len(analyzed_articles) < Len(media_hits)
    /\ \E o \in ArticleScenarios(user_profile) :
          LET hit == media_hits[Len(analyzed_articles) + 1]
              r == _analyze_single_article(user_profile, hit, o.extraction, o.name,
                                           o.batch, o.single)
          IN  /\ r.raised
              /\ result' = [kind |-> "http500", error |-> r.error]
    /\ pc' = "raised"
    /\ UNCHANGED <<progress_logs, user_profile, media_hits, analyzed_articles, anchors,
                   article_date, verifications, contradictions, has_name_match, required_anchors>>

\* lines 51-82: roll-up, decision, targeted ask, memo
FinishCase ==
    /\ pc = "analyze"
    /\ Len(analyzed_articles) = Len(media_hits)
    /\ result' = [kind |-> "result",
                  value |-> ComplianceResult(user_profile, media_hits, analyzed_articles)]
    /\ pc' = "done"
    /\ UNCHANGED <<progress_logs, user_profile, media_hits, analyzed_articles, anchors,
                   article_date, verifications, contradictions, has_name_match, required_anchors>>

Next == AnalyzeArticle \/ AnalyzeArticleRaises \/ FinishCase

Spec == Init /\ [][Next]_vars

----------------------------------------------------------------------------
(* Properties of the case pipeline *)

Done == pc = "done"
CaseResult == result.value

AllVerifications ==
    Concat([i \in 1..Len(analyzed_articles) |-> analyzed_articles[i].anchor_verifications])

\* C2: no AnchorVerification held by an ArticleAnalysis has matches = true
\* and conflict = true at the same time.
C2_MatchesExcludesConflict ==
    \A i \in 1..Len(AllVerifications) :
        ~(AllVerifications[i].matches /\ AllVerifications[i].conflict)

\* C7: in a ComplianceResult, targeted_ask is non-null exactly when
\* final_decision is escalate.
C7_AskIffEscalate ==
    Done => ((CaseResult.targeted_ask # None) <=> (CaseResult.final_decision = "escalate"))

C7_Witness ==
    /\ Done
    /\ CaseResult.final_decision = "escalate"
    /\ CaseResult.targeted_ask # None

NoArticleAccepted ==
    \A i \in 1..Len(analyzed_articles) :
        analyzed_articles[i].linkage_decision \notin {"yes", "maybe"}

\* C8: when no article is accepted (no linkage decision is yes or maybe, zero
\* hits included) the result is clear, with score 10 and no targeted ask.
C8_NothingAcceptedIsClear ==
    (Done /\ NoArticleAccepted) =>
        /\ CaseResult.final_decision = "clear"
        /\ CaseResult.decision_score = 10
        /\ CaseResult.targeted_ask = None

C8_Witness ==
    /\ Done
    /\ Len(media_hits) = MaxHits
    /\ NoArticleAccepted
    /\ CaseResult.decision_score = 10

\* C9: a failure during the analysis of one article never aborts the case:
\* process_compliance_check does not end by an exception.
C9_ArticleFailureDoesNotAbort == pc # "raised"

\* C24: every ComplianceResult of process_compliance_check is clear or
\* escalate, never decline: each article's outcome is NONE, so the severe
\* and the charged/investigation branches are never taken and the case
\* escalates exactly when articles were accepted and the score is >= 60.
C24_PipelineNeverDeclines ==
    Done =>
        /\ CaseResult.final_decision \in {"clear", "escalate"}
        /\ \A i \in 1..Len(CaseResult.analyzed_articles) :
               CaseResult.analyzed_articles[i].outcome_type = "none"
        /\ CaseResult.overall_rationale \notin
               {"convicted/regulator order within lookback with yes linkage",
                "charged/investigated with linkage"}
        /\ CaseResult.final_decision = "escalate"
               <=> (CaseResult.matched_hits # <<>> /\ CaseResult.decision_score >= 60)

\* the positions in `articles` of the members of `part`, in the order of
\* `part` (the hits of a case have distinct titles)
PositionsOf(part, articles) ==
    [k \in 1..Len(part) |-> CHOOSE i \in 1..Len(articles) : articles[i] = part[k]]

StrictlyIncreasing(positions) ==
    \A k \in 1..Len(positions) : \A l \in (k + 1)..Len(positions) :
        positions[k] < positions[l]

\* C28: analyzed_articles holds one ArticleAnalysis per media hit in input
\* order (its length is total_hits); matched_hits (linkage yes or maybe) and
\* non_matched_hits (linkage no) are disjoint subsequences of it that keep
\* its order and together cover it.
C28_ArticlesPartitioned ==
    Done =>
        LET all == CaseResult.analyzed_articles
            matched == CaseResult.matched_hits
            rest == CaseResult.non_matched_hits
        IN  /\ Len(all) = CaseResult.total_hits
            /\ CaseResult.total_hits = Len(media_hits)
            /\ \A i \in 1..Len(all) : all[i].hit = media_hits[i]
            /\ \A k \in 1..Len(matched) :
                   /\ matched[k].linkage_decision \in {"yes", "maybe"}
                   /\ \E i \in 1..Len(all) : all[i] = matched[k]
            /\ \A k \in 1..Len(rest) :
                   /\ rest[k].linkage_decision = "no"
                   /\ \E i \in 1..Len(all) : all[i] = rest[k]
            /\ StrictlyIncreasing(PositionsOf(matched, all))
            /\ StrictlyIncreasing(PositionsOf(rest, all))
            /\ Len(matched) + Len(rest) = Len(all)

\* a rejected article before an accepted one: each list holds one of them
C28_Witness ==
    /\ Done
    /\ CaseResult.total_hits = 2
    /\ CaseResult.analyzed_articles[1].linkage_decision = "no"
    /\ CaseResult.analyzed_articles[2].linkage_decision = "maybe"
    /\ CaseResult.matched_hits = <<CaseResult.analyzed_articles[2]>>
    /\ CaseResult.non_matched_hits = <<CaseResult.analyzed_articles[1]>>

\* the verification is on an anchor that is no name (types are compared as
\* the rules dispatch on them, in lower case)
OnNonNameAnchor(v) == LowerUnit(v.anchor.anchor_type) # "name"

\* C29: every article linked with yes has no contradiction, no verification
\* with conflict = true, and a verification with matches = true on an anchor
\* that is not a name: a name match alone never yields yes.
C29_YesNeedsNonNameEvidence ==
    Done =>
        \A i \in 1..Len(CaseResult.analyzed_articles) :
            LET article == CaseResult.analyzed_articles[i]
                vs == article.anchor_verifications
            IN  article.linkage_decision = "yes" =>
                    /\ article.contradictions = <<>>
                    /\ \A k \in 1..Len(vs) : ~vs[k].conflict
                    /\ \E k \in 1..Len(vs) : vs[k].matches /\ OnNonNameAnchor(vs[k])

\* the same with the anchor types compared as line 196 compares them
C29_HoldsForExactTypes ==
    Done =>
        \A i \in 1..Len(CaseResult.analyzed_articles) :
            LET article == CaseResult.analyzed_articles[i]
                vs == article.anchor_verifications
            IN  article.linkage_decision = "yes" =>
                    /\ article.contradictions = <<>>
                    /\ \A k \in 1..Len(vs) : ~vs[k].conflict
                    /\ \E k \in 1..Len(vs) : vs[k].matches /\ vs[k].anchor.anchor_type # "name"

\* C30: a case with exactly one accepted article ends clear, with a score of
\* at most 45 and no targeted ask, whatever the article's linkage and
\* recency; an escalated case has at least two accepted articles.
C30_OneArticleNeverEscalates ==
    Done =>
        /\ Len(CaseResult.matched_hits) = 1 =>
               /\ CaseResult.final_decision = "clear"
               /\ CaseResult.decision_score <= 45
               /\ CaseResult.targeted_ask = None
        /\ CaseResult.final_decision = "escalate" => Len(CaseResult.matched_hits) >= 2

\* the strongest single article: linked with yes, within 12 months, score 45
C30_Witness ==
    /\ Done
    /\ CaseResult.total_hits = 2
    /\ Len(CaseResult.matched_hits) = 1
    /\ CaseResult.matched_hits[1].linkage_decision = "yes"
    /\ get_recency_bucket(CaseResult.matched_hits[1].hit.date) = "within 12 months"
    /\ CaseResult.decision_score = 45
    /\ CaseResult.final_decision = "clear"
    /\ CaseResult.targeted_ask = None

\* two recent articles linked with yes: score 90, escalated by the score
C24_Witness ==
    /\ Done
    /\ Len(CaseResult.matched_hits) = 2
    /\ \A i \in 1..2 : CaseResult.matched_hits[i].linkage_decision = "yes"
    /\ CaseResult.decision_score >= 60
    /\ CaseResult.final_decision = "escalate"
    /\ CaseResult.overall_rationale = "multiple adverse findings with linkage"

----------------------------------------------------------------------------
(* make_linkage_decision over the values its caller can pass *)

MaxVerifications == 4

\* (has_name_match, required_anchors) as analyze_name_match returns them
\* (lines 26, 41 and 49 of name_matcher.py)
NameOutcomes ==
    {<<FALSE, 0>>, <<TRUE, RARE_NAMES_THRESHOLD>>, <<TRUE, COMMON_NAMES_THRESHOLD>>}

\* AnchorVerifications as verify_anchors returns them: any verdict of the
\* oracle on a name anchor or another anchor
LinkVerifications ==
    {AnchorVerification(Anchor(t, <<"v">>), m, c, <<t, ": verdict">>) :
        t \in {"name", "employer"}, m \in BOOLEAN, c \in BOOLEAN}

InitLink ==
    /\ pc = "link"
    /\ verifications \in SeqsUpTo(LinkVerifications, MaxVerifications)
    /\ contradictions = detect_contradictions(verifications)
    /\ \E o \in NameOutcomes : has_name_match = o[1] /\ required_anchors = o[2]
    /\ result = NoResult
    /\ user_profile = ProfileSmith
    /\ media_hits = <<>>
    /\ analyzed_articles = <<>>
    /\ anchors = <<>>
    /\ article_date = None
    /\ progress_logs = <<>>

\* the call of lines 110-112 of compliance_agent.py
MakeLinkageDecision ==
    /\ pc = "link"
    /\ result' = [kind |-> "linkage",
                  value |-> make_linkage_decision(verifications, contradictions,
                                                  required_anchors, has_name_match)]
    /\ pc' = "linked"
    /\ UNCHANGED <<progress_logs, user_profile, media_hits, analyzed_articles, anchors,
                   article_date, verifications, contradictions, has_name_match, required_anchors>>

SpecLink == InitLink /\ [][MakeLinkageDecision]_vars

Linked == pc = "linked"
LinkageResult == result.value

\* the number of verifications with matches = true on an anchor whose type
\* is not name
NonNameMatchCount ==
    Cardinality({i \in 1..Len(verifications) :
                    verifications[i].matches /\ verifications[i].anchor.anchor_type # "name"})

\* C3: without a name match the decision is NO, with the rationale "no name
\* match found", whatever the verifications and contradictions are.
C3_NoNameMatchIsNo ==
    (Linked /\ ~has_name_match) =>
        /\ LinkageResult.decision = "no"
        /\ LinkageResult.rationale.text = "Linkage: no - no name match found"

C3_Witness ==
    /\ Linked
    /\ ~has_name_match
    /\ contradictions # <<>>
    /\ NonNameMatchCount >= 2
    /\ LinkageResult.decision = "no"

\* C4: with a name match and at least one contradiction the decision is
\* MAYBE when the non-name matches number at least required_anchors + 1,
\* and otherwise NO with "conflicts detected"; it is never YES.
C4_ContradictionsNeverYes ==
    (Linked /\ has_name_match /\ contradictions # <<>>) =>
        /\ LinkageResult.decision # "yes"
        /\ IF NonNameMatchCount >= required_anchors + 1
           THEN LinkageResult.decision = "maybe"
           ELSE /\ LinkageResult.decision = "no"
                /\ LinkageResult.rationale.text = "Linkage: no - conflicts detected: "

C4_Witness ==
    /\ Linked
    /\ has_name_match
    /\ contradictions # <<>>
    /\ NonNameMatchCount = required_anchors + 1
    /\ \A i \in 1..Len(verifications) : ~(verifications[i].matches /\ verifications[i].conflict)
    /\ LinkageResult.decision = "maybe"

\* C5: with a name match and no contradiction the decision is YES when the
\* non-name matches reach required_anchors, MAYBE when there are some but
\* fewer, and NO when there are none.
C5_ThresholdDecision ==
    (Linked /\ has_name_match /\ contradictions = <<>>) =>
        /\ (NonNameMatchCount >= required_anchors) => LinkageResult.decision = "yes"
        /\ (0 < NonNameMatchCount /\ NonNameMatchCount < required_anchors)
               => LinkageResult.decision = "maybe"
        /\ (NonNameMatchCount = 0) => LinkageResult.decision = "no"

C5_Witness ==
    /\ Linked
    /\ has_name_match
    /\ contradictions = <<>>
    /\ NonNameMatchCount = required_anchors
    /\ required_anchors = COMMON_NAMES_THRESHOLD
    /\ LinkageResult.decision = "yes"

----------------------------------------------------------------------------
(* analyze_name_match over profiles, anchor lists and oracle responses *)

MaxNameAnchors == 2

NameProfile(full_name, aliases) ==
    [full_name |-> full_name, date_of_birth |-> None, city |-> None,
     employer |-> None, id_data |-> <<>>, aliases |-> aliases]

\* full names with a common and a rare surname, in upper case, empty and
\* blank; aliases whose surname differs in kind from the full name's
NameProfiles ==
    { NameProfile(JohnSmith, <<>>),
      NameProfile(JohnSmith, <<AdaOkonkwo>>),
      NameProfile(<<"John", " ", "SMITH">>, <<>>),
      NameProfile(<<"Smith", " ", "Okonkwo">>, <<>>),
      NameProfile(AdaOkonkwo, <<>>),
      NameProfile(AdaOkonkwo, <<AdaSmith>>),
      NameProfile(<<"Okonkwo">>, <<JohnSmith, AdaSmith>>),
      NameProfile(<<>>, <<AdaSmith>>),
      NameProfile(<<" ">>, <<>>) }

NameMenu ==
    {Anchor("name", JohnSmith), Anchor("name", AdaSmith), Anchor("name", AdaOkonkwo),
     Anchor("name", <<"Dr.", " ", "John", " ", "A", " ", "Smith">>),
     Anchor("employer", <<"A", "b">>)}

InitName ==
    /\ pc = "name"
    /\ user_profile \in NameProfiles
    /\ anchors \in SeqsUpTo(NameMenu, MaxNameAnchors)
    /\ has_name_match = FALSE
    /\ required_anchors = 0
    /\ result = NoResult
    /\ media_hits = <<>>
    /\ analyzed_articles = <<>>
    /\ article_date = None
    /\ verifications = <<>>
    /\ contradictions = <<>>
    /\ progress_logs = <<>>

\* the call of line 95 of compliance_agent.py returns
AnalyzeNameMatch ==
    /\ pc = "name"
    /\ \E oracle \in NameOracleResponses :
          LET r == analyze_name_match(user_profile, anchors, oracle)
          IN  /\ ~r.raised
              /\ has_name_match' = r.has_name_match
              /\ required_anchors' = r.required_anchors
              /\ result' = [kind |-> "name_analysis", value |-> r.name_analysis,
                            asked |-> r.asked, oracle |-> oracle]
    /\ pc' = "named"
    /\ UNCHANGED <<progress_logs, user_profile, media_hits, analyzed_articles, anchors,
                   article_date, verifications, contradictions>>

\* the call raises (TypeError of line 37, IndexError of config.py line 48)
AnalyzeNameMatchRaises ==
    /\ pc = "name"
    /\ \E oracle \in NameOracleResponses :
          LET r == analyze_name_match(user_profile, anchors, oracle)
          IN  /\ r.raised
              /\ result' = [kind |-> "raised", error |-> r.error]
    /\ pc' = "raised"
    /\ UNCHANGED <<progress_logs, user_profile, media_hits, analyzed_articles, anchors,
                   article_date, verifications, contradictions, has_name_match, required_anchors>>

NextName == AnalyzeNameMatch \/ AnalyzeNameMatchRaises

SpecName == InitName /\ [][NextName]_vars

\* the last whitespace token of s, lowercased, is a common surname
LastTokenIsCommon(s) ==
    LET tokens == Split(s)
    IN  tokens # <<>> /\ LowerUnit(tokens[Len(tokens)]) \in COMMON_NAMES

\* C10: when analyze_name_match reports a match, required_anchors is 2 if
\* the last whitespace token of full_name, lowercased, is a common surname
\* and 1 otherwise, whatever the aliases are.
C10_ThresholdFromFullNameOnly ==
    (pc = "named" /\ has_name_match) =>
        required_anchors = IF LastTokenIsCommon(user_profile.full_name) THEN 2 ELSE 1

C10_Witness ==
    /\ pc = "named"
    /\ has_name_match
    /\ ~LastTokenIsCommon(user_profile.full_name)
    /\ \E i \in 1..Len(user_profile.aliases) : LastTokenIsCommon(user_profile.aliases[i])
    /\ required_anchors = 1

----------------------------------------------------------------------------
(* verify_anchors over anchor lists and oracle responses *)

MaxAnchors == 2
MaxVerdicts == 2

VerifyMenu ==
    {Anchor("name", JohnSmith), Anchor("employer", <<"c">>), Anchor("dob", <<"1985-03-15">>)}

\* one entry of the batch oracle's "verifications": any index, in range or
\* not, or none; a verdict, a value that is no bool, or no "matches" key
BatchEntries ==
    {BatchEntry(i, m, "false", "verdict") :
        i \in {IntIndex(k) : k \in -1..MaxAnchors} \cup {MissingIndex, BadIndex},
        m \in {"true", "false", NotABool, Missing}}

BatchResponses ==
    {BatchFailed, BatchNoKey} \cup {BatchSays(e) : e \in SeqsUpTo(BatchEntries, MaxVerdicts)}

AnchorResponses ==
    {AnchorFailed, AnchorSays("true", "false", "verdict"),
     AnchorSays("false", NotABool, "verdict")}

InitVerify ==
    /\ pc = "verify"
    /\ user_profile = ProfileSmith
    /\ anchors \in SeqsUpTo(VerifyMenu, MaxAnchors)
    /\ article_date = <<"2025-05-30">>
    /\ verifications = <<>>
    /\ result = NoResult
    /\ media_hits = <<>>
    /\ analyzed_articles = <<>>
    /\ contradictions = <<>>
    /\ has_name_match = FALSE
    /\ required_anchors = 0
    /\ progress_logs = <<>>

\* no per-anchor response is read when the batch call succeeds
Unasked == [i \in 1..Len(anchors) |-> AnchorFailed]

\* lines 26-29: the batch call succeeds and its list is returned
VerifyAnchorsBatch ==
    /\ pc = "verify"
    /\ \E batch \in BatchResponses :
          LET r == verify_anchors(user_profile, anchors, article_date, batch, Unasked)
          IN  /\ r.path = "batch"
              /\ verifications' = r.verifications
              /\ result' = [kind |-> "verify_anchors", path |-> r.path,
                            batch |-> batch, singles |-> Unasked]
    /\ pc' = "verified"
    /\ UNCHANGED <<progress_logs, user_profile, media_hits, analyzed_articles, anchors,
                   article_date, contradictions, has_name_match, required_anchors>>

\* some response makes the batch call fail; the fallback reads none of it
BatchCanFail ==
    ~ \A batch \in BatchResponses :
          _ai_verify_all_anchors(user_profile, anchors, article_date, batch).success

\* lines 32-37: the batch call failed and each anchor is verified alone
VerifyAnchorsFallback ==
    /\ pc = "verify"
    /\ BatchCanFail
    /\ \E singles \in [1..Len(anchors) -> AnchorResponses] :
          LET r == verify_anchors(user_profile, anchors, article_date, BatchFailed, singles)
          IN  /\ ~r.raised
              /\ verifications' = r.verifications
              /\ result' = [kind |-> "verify_anchors", path |-> r.path,
                            batch |-> BatchFailed, singles |-> singles]
    /\ pc' = "verified"
    /\ UNCHANGED <<progress_logs, user_profile, media_hits, analyzed_articles, anchors,
                   article_date, contradictions, has_name_match, required_anchors>>

\* the fallback raises (ValidationError of lines 46-51 of decision_engine.py)
VerifyAnchorsRaises ==
    /\ pc = "verify"
    /\ BatchCanFail
    /\ \E singles \in [1..Len(anchors) -> AnchorResponses] :
          verify_anchors(user_profile, anchors, article_date, BatchFailed, singles).raised
    /\ result' = [kind |-> "raised", error |-> "ValidationError"]
    /\ pc' = "raised"
    /\ UNCHANGED <<progress_logs, user_profile, media_hits, analyzed_articles, anchors,
                   article_date, verifications, contradictions, has_name_match, required_anchors>>

NextVerify == VerifyAnchorsBatch \/ VerifyAnchorsFallback \/ VerifyAnchorsRaises

SpecVerify == InitVerify /\ [][NextVerify]_vars

\* C1: verify_anchors returns exactly one AnchorVerification per input
\* anchor, in the same number, none dropped and none verified twice, for
\* every oracle outcome.
C1_OneVerificationPerAnchor ==
    pc = "verified" =>
        /\ Len(verifications) = Len(anchors)
        /\ \A i \in 1..Len(anchors) :
               Cardinality({j \in 1..Len(verifications) : verifications[j].anchor = anchors[i]})
                   >= Cardinality({k \in 1..Len(anchors) : anchors[k] = anchors[i]})

----------------------------------------------------------------------------
(* _make_overall_decision and the roll-up over any analyzed articles *)

MaxAggArticles == 2

OutcomeTypes ==
    {"allegation", "investigation", "charged", "convicted", "acquitted", "settled",
     "regulator_order", "none"}

\* an ArticleAnalysis with any outcome, linkage and recency
AggArticle(outcome, linkage, date) ==
    LET hit == [title |-> <<"hit">>, date |-> date]
    IN  [hit |-> hit,
         anchors |-> <<>>,
         anchor_verifications |-> <<>>,
         contradictions |-> <<>>,
         linkage_decision |-> linkage,
         linkage_rationale |-> [text |-> "", count |-> 0, cited |-> <<>>],
         outcome_type |-> outcome,
         recency_note |-> RecencyNote(hit)]

AggArticles ==
    {AggArticle(o, l, d) : o \in OutcomeTypes, l \in {"yes", "maybe", "no"}, d \in HitDates}

InitAgg ==
    /\ pc = "analyze"
    /\ analyzed_articles \in SeqsUpTo(AggArticles, MaxAggArticles)
    /\ media_hits = [i \in 1..Len(analyzed_articles) |-> analyzed_articles[i].hit]
    /\ user_profile = ProfileSmith
    /\ result = NoResult
    /\ anchors = <<>>
    /\ article_date = None
    /\ verifications = <<>>
    /\ contradictions = <<>>
    /\ has_name_match = FALSE
    /\ required_anchors = 0
    /\ progress_logs = <<>>

SpecAgg == InitAgg /\ [][FinishCase]_vars

\* C6: decision_score of every ComplianceResult is an integer in [0, 100].
C6_ScoreInRange == Done => CaseResult.decision_score \in 0..100

\* two accepted articles whose contributions sum above 100
C6_Witness ==
    /\ Done
    /\ Len(CaseResult.matched_hits) = 2
    /\ \A i \in 1..2 : /\ CaseResult.matched_hits[i].outcome_type = "convicted"
                       /\ CaseResult.matched_hits[i].linkage_decision = "yes"
    /\ CaseResult.decision_score = 100

----------------------------------------------------------------------------
(* The score of a case whose hits carry any date string *)

\* MediaHit.date is an unvalidated str: the three dated buckets, and two
\* strings dateutil does not parse
ScoreDates == HitDates \cup {<<"last spring">>, <<"within 12 months">>}

ScoreArticles ==
    {AggArticle(o, l, d) : o \in OutcomeTypes, l \in {"yes", "maybe", "no"}, d \in ScoreDates}

InitScore ==
    /\ pc = "analyze"
    /\ analyzed_articles \in SeqsUpTo(ScoreArticles, MaxAggArticles)
    /\ media_hits = [i \in 1..Len(analyzed_articles) |-> analyzed_articles[i].hit]
    /\ user_profile = ProfileSmith
    /\ result = NoResult
    /\ anchors = <<>>
    /\ article_date = None
    /\ verifications = <<>>
    /\ contradictions = <<>>
    /\ has_name_match = FALSE
    /\ required_anchors = 0
    /\ progress_logs = <<>>

SpecScore == InitScore /\ [][FinishCase]_vars

\* the three factors of an article, times ten
SeverityFactor(article) ==
    CASE article.outcome_type \in {"convicted", "regulator_order"} -> 30
      [] article.outcome_type = "charged" -> 20
      [] article.outcome_type = "investigation" -> 15
      [] OTHER -> 10

LinkageFactor(article) == IF article.linkage_decision = "yes" THEN 15 ELSE 10

RecencyFactor(article) ==
    CASE get_recency_bucket(article.hit.date) = "within 12 months" -> 15
      [] get_recency_bucket(article.hit.date) = "12-36 months" -> 12
      [] OTHER -> 10

\* the sum of 20 x severity x linkage x recency over the articles, in tenths
RECURSIVE WeightedSum(_)
WeightedSum(articles) ==
    IF articles = <<>> THEN 0
    ELSE (200 * SeverityFactor(Head(articles)) * LinkageFactor(Head(articles))
              * RecencyFactor(Head(articles))) \div 1000
         + WeightedSum(Tail(articles))

\* C23: with an accepted article, decision_score is the sum over the
\* accepted articles of 20 x severity x linkage x recency factor (recency 1
\* for a date that does not parse), truncated to an integer and capped at 100.
C23_ScoreIsWeightedSum ==
    (Done /\ CaseResult.matched_hits # <<>>) =>
        CaseResult.decision_score =
            LET whole == WeightedSum(CaseResult.matched_hits) \div 10
            IN  IF whole > 100 THEN 100 ELSE whole

\* the same with the dates that parse
C23_HoldsForParsedDates ==
    ( /\ Done
      /\ CaseResult.matched_hits # <<>>
      /\ \A i \in 1..Len(CaseResult.matched_hits) :
             parse_date(CaseResult.matched_hits[i].hit.date).ok ) =>
        CaseResult.decision_score =
            LET whole == WeightedSum(CaseResult.matched_hits) \div 10
            IN  IF whole > 100 THEN 100 ELSE whole

----------------------------------------------------------------------------
(* The final memo of a case with more linked articles than it lists *)

MaxMemoArticles == 7

\* the analysis of hit i, with the linkage decided for it
MemoArticle(i, linkage) ==
    LET hit == [title |-> <<"hit ", ToString(i)>>, date |-> <<"2019-01-10">>]
    IN  [hit |-> hit,
         anchors |-> <<>>,
         anchor_verifications |-> <<>>,
         contradictions |-> <<>>,
         linkage_decision |-> linkage,
         linkage_rationale |-> [text |-> "", count |-> 0, cited |-> <<>>],
         outcome_type |-> "none",
         recency_note |-> RecencyNote(hit)]

InitMemo ==
    /\ pc = "analyze"
    /\ \E linkages \in SeqsUpTo({"yes", "maybe", "no"}, MaxMemoArticles) :
          analyzed_articles = [i \in 1..Len(linkages) |-> MemoArticle(i, linkages[i])]
    /\ media_hits = [i \in 1..Len(analyzed_articles) |-> analyzed_articles[i].hit]
    /\ user_profile = ProfileSmith
    /\ result = NoResult
    /\ anchors = <<>>
    /\ article_date = None
    /\ verifications = <<>>
    /\ contradictions = <<>>
    /\ has_name_match = FALSE
    /\ required_anchors = 0
    /\ progress_logs = <<>>

SpecMemo == InitMemo /\ [][FinishCase]_vars

\* the positions in media_hits of the accepted articles, in input order
RECURSIVE AcceptedPositions(_)
AcceptedPositions(n) ==
    IF n = 0 THEN <<>>
    ELSE AcceptedPositions(n - 1)
         \o (IF analyzed_articles[n].linkage_decision # "no" THEN <<n>> ELSE <<>>)

\* C11: the final memo lists at most 5 linked articles, and they are the
\* first 5 (or all, if fewer) accepted articles in the input order of the
\* media hits.
C11_MemoListsFirstFive ==
    Done =>
        LET listed == CaseResult.final_memo.articles
            accepted == AcceptedPositions(Len(media_hits))
        IN  /\ Len(listed) <= 5
            /\ Len(listed) = IF Len(accepted) < 5 THEN Len(accepted) ELSE 5
            /\ \A k \in 1..Len(listed) : listed[k].title = media_hits[accepted[k]].title

\* six accepted articles and a rejected one among the first five hits
C11_Witness ==
    /\ Done
    /\ Len(media_hits) >= 6
    /\ Len(AcceptedPositions(Len(media_hits))) >= 6
    /\ Len(CaseResult.final_memo.articles) = 5
    /\ \E i \in 1..5 : analyzed_articles[i].linkage_decision = "no"

----------------------------------------------------------------------------
(* Properties of _make_overall_decision over any accepted articles *)

SevereWithYes(article) ==
    /\ article.outcome_type \in {"convicted", "regulator_order"}
    /\ article.linkage_decision = "yes"

UnderProceedings(article) == article.outcome_type \in {"charged", "investigation"}

\* C12: for a non-empty accepted set the decision is decline if some
\* accepted article is convicted or under a regulator order with linkage
\* yes; else escalate if some accepted article is charged or under
\* investigation; else escalate if the score is at least 60; else clear.
C12_DecisionOrder ==
    (Done /\ CaseResult.matched_hits # <<>>) =>
        LET accepted == CaseResult.matched_hits
            some(P(_)) == \E i \in 1..Len(accepted) : P(accepted[i])
        IN  CaseResult.final_decision =
                IF some(SevereWithYes) THEN "decline"
                ELSE IF some(UnderProceedings) THEN "escalate"
                ELSE IF CaseResult.decision_score >= 60 THEN "escalate"
                ELSE "clear"

\* a score of exactly 60 with nothing severe-and-yes and nothing charged
C12_Witness ==
    /\ Done
    /\ CaseResult.matched_hits # <<>>
    /\ \A i \in 1..Len(CaseResult.matched_hits) :
           /\ ~SevereWithYes(CaseResult.matched_hits[i])
           /\ ~UnderProceedings(CaseResult.matched_hits[i])
    /\ CaseResult.decision_score = 60
    /\ CaseResult.final_decision = "escalate"

----------------------------------------------------------------------------
(* Properties of analyze_name_match and the name-match oracle *)

Named == pc = "named"

\* the oracle was queried and its answer lacks is_match or confidence
AnswerLacksField ==
    /\ result.asked
    /\ result.oracle.kind = "json"
    /\ (result.oracle.is_match = Missing \/ result.oracle.confidence = MissingNumber)

\* the best token-set similarity of an article name and a subject name
FallbackSimilarity ==
    BestSimilarity(NamePairs(AnchorValues(NameAnchors(anchors)), UserNames(user_profile)),
                   Frac(0, 1), <<>>).score

\* C13: a name-match answer that lacks is_match or confidence is treated as
\* an oracle failure: has_name_match is what the token-set similarity
\* fallback decides.
C13_MissingFieldsEngageFallback ==
    (Named /\ AnswerLacksField) => (has_name_match <=> FracGeq(FallbackSimilarity, Frac(7, 10)))


\* the result analyze_name_match reads: the oracle's answer with the defaults
\* of its missing fields, or the similarity fallback's when the call failed
AnswerIsMatch ==
    IF result.oracle.kind = "json" THEN result.oracle.is_match = "true"
    ELSE FracGeq(FallbackSimilarity, Frac(7, 10))

AnswerConfidence ==
    IF result.oracle.kind # "json" THEN FallbackSimilarity
    ELSE IF result.oracle.confidence = MissingNumber THEN Frac(0, 1)
    ELSE result.oracle.confidence

\* C14: without a name anchor analyze_name_match returns (false, note, 0)
\* and the oracle is not queried; otherwise has_name_match is true exactly
\* when the oracle result has is_match = true or confidence >= 0.70, and
\* required_anchors is 0 whenever has_name_match is false.
C14_NameMatchDecision ==
    Named =>
        IF \A i \in 1..Len(anchors) : anchors[i].anchor_type # "name"
        THEN /\ ~has_name_match
             /\ required_anchors = 0
             /\ ~result.asked
             /\ result.value = "No name mentions found in article"
        ELSE /\ result.asked
             /\ has_name_match <=>
                    \/ AnswerIsMatch
                    \/ (AnswerConfidence.kind = "num" /\ FracGeq(AnswerConfidence, Frac(7, 10)))
             /\ ~has_name_match => required_anchors = 0

\* is_match = false with a confidence of exactly 0.70 is a match
C14_Witness ==
    /\ Named
    /\ result.asked
    /\ result.oracle.kind = "json"
    /\ result.oracle.is_match = "false"
    /\ result.oracle.confidence = Frac(7, 10)
    /\ has_name_match

\* the lowercased tokens of a name without honorifics and punctuation
TokenSet(name) == Range(Split(normalize_name(name)))

\* some (article name, subject name) pair has shared tokens / all tokens >= 0.70
SomePairIsSimilar ==
    \E i \in 1..Len(anchors) : \E j \in 1..Len(UserNames(user_profile)) :
        LET a == TokenSet(anchors[i].value)
            u == TokenSet(UserNames(user_profile)[j])
        IN  /\ anchors[i].anchor_type = "name"
            /\ a # {} /\ u # {}
            /\ 10 * Cardinality(a \cap u) >= 7 * Cardinality(a \cup u)

OracleCallFailed == Named /\ result.asked /\ result.oracle.kind = "exception"

\* C21: when the name-match oracle call fails, has_name_match is true
\* exactly when the largest Jaccard similarity of the normalized token sets
\* of an article name and a subject name is at least 0.70.
C21_FallbackIsBestJaccard ==
    OracleCallFailed => (has_name_match <=> SomePairIsSimilar)

\* an article name sharing two of three tokens (0.67) with the subject's
\* name, and a second article name that decides the match
C21_Witness ==
    /\ OracleCallFailed
    /\ Len(anchors) = 2
    /\ TokenSet(anchors[1].value) = {"john", "a", "smith"}
    /\ TokenSet(user_profile.full_name) = {"john", "smith"}
    /\ has_name_match
    /\ SomePairIsSimilar

\* the 0.67 pair alone: no match
C21_WitnessBelow ==
    /\ OracleCallFailed
    /\ Len(anchors) = 1
    /\ TokenSet(anchors[1].value) = {"john", "a", "smith"}
    /\ TokenSet(user_profile.full_name) = {"john", "smith"}
    /\ user_profile.aliases = <<>>
    /\ ~has_name_match

----------------------------------------------------------------------------
(* Properties of verify_anchors and the verification oracles *)

Verified == pc = "verified"
ByBatch == Verified /\ result.path = "batch"
ByFallback == Verified /\ result.path = "fallback"

\* C15: the fallback of verify_anchors yields exactly one verification per
\* anchor, and no internal error of the per-anchor verification leaves
\* verify_anchors.
C15_FallbackOnePerAnchor ==
    /\ pc # "raised"
    /\ ByFallback =>
          /\ Len(verifications) = Len(anchors)
          /\ \A i \in 1..Len(anchors) : verifications[i].anchor = anchors[i]

\* the entries of the batch answer, and those whose index is one of
\* 0..len(anchors)-1 (an entry without "index" has index 0)
BatchAnswerEntries ==
    IF result.batch.has_verifications THEN result.batch.verifications ELSE <<>>

IndexInRange(index) ==
    \/ index.kind = "int" /\ 0 <= index.val /\ index.val < Len(anchors)
    \/ index.kind = "missing" /\ 0 < Len(anchors)

\* C16: in the batch path every verdict whose index is outside
\* 0..len(anchors)-1, negative indices included, is discarded: the
\* verifications returned are those of the in-range verdicts only.
C16_OutOfRangeIndexDiscarded ==
    ByBatch =>
        Len(verifications) =
            Cardinality({k \in 1..Len(BatchAnswerEntries) :
                            IndexInRange(BatchAnswerEntries[k].index)})

\* valid JSON without "verifications", or with an entry lacking "matches"
BatchAnswerMalformed ==
    /\ result.batch.kind = "json"
    /\ \/ ~result.batch.has_verifications
       \/ \E k \in 1..Len(result.batch.verifications) :
              \/ result.batch.verifications[k].matches = Missing
              \/ result.batch.verifications[k].conflict = Missing

\* C17: a malformed batch answer is treated as an oracle failure:
\* verify_anchors engages the per-anchor fallback and does not return the
\* batch result.
C17_MalformedBatchEngagesFallback ==
    (Verified /\ BatchAnswerMalformed) => result.path = "fallback"

\* C18: when the batch call fails every verdict comes from the per-type
\* rules: it is a function of the profile, the anchor and the article date.
C18_FallbackIsRuleBased ==
    ByFallback =>
        \A i \in 1..Len(verifications) :
            LET rule == RuleVerdict(user_profile, anchors[i], article_date)
            IN  /\ verifications[i].matches = rule.matches
                /\ verifications[i].conflict = rule.conflict
                /\ verifications[i].rationale = rule.rationale

----------------------------------------------------------------------------
(* The targeted ask of a case whose accepted articles carry contradictions *)

MaxAskArticles == 2
MaxContradictions == 2

\* contradictions as the rules word them for ProfileSmith: a city, an
\* employer, a dob and an age conflict
ConflictTexts ==
    { _verify_city(ProfileSmith, <<"x">>).rationale,
      _verify_employer(ProfileSmith, <<"c">>).rationale,
      _verify_dob(ProfileSmith, <<"1985-11-20">>).rationale,
      _verify_age(ProfileSmith, <<"45">>, <<"2025-05-30">>).rationale }

\* an accepted article of the last 12 months (linkage maybe; outcome none, as
\* _analyze_single_article sets it) with these contradictions: two of them
\* score 60
AskArticle(contradiction_list) ==
    LET hit == [title |-> <<"hit">>, date |-> <<"2025-05-30">>]
    IN  [hit |-> hit,
         anchors |-> <<>>,
         anchor_verifications |-> <<>>,
         contradictions |-> contradiction_list,
         linkage_decision |-> "maybe",
         linkage_rationale |-> [text |-> "", count |-> 0, cited |-> <<>>],
         outcome_type |-> "none",
         recency_note |-> RecencyNote(hit)]

AskArticles == {AskArticle(cs) : cs \in SeqsUpTo(ConflictTexts, MaxContradictions)}

InitAsk ==
    /\ pc = "analyze"
    /\ analyzed_articles \in SeqsUpTo(AskArticles, MaxAskArticles)
    /\ media_hits = [i \in 1..Len(analyzed_articles) |-> analyzed_articles[i].hit]
    /\ user_profile = ProfileSmith
    /\ result = NoResult
    /\ anchors = <<>>
    /\ article_date = None
    /\ verifications = <<>>
    /\ contradictions = <<>>
    /\ has_name_match = FALSE
    /\ required_anchors = 0
    /\ progress_logs = <<>>

SpecAsk == InitAsk /\ [][FinishCase]_vars

\* some contradiction of some accepted article mentions the keyword
AnyContradictionMentions(kw) ==
    \E i \in 1..Len(CaseResult.matched_hits) :
        \E k \in 1..Len(CaseResult.matched_hits[i].contradictions) :
            Mentions(CaseResult.matched_hits[i].contradictions[k], kw)

\* C19: the targeted ask follows the priority dob, age, employer over all
\* contradictions of all accepted articles, wherever in the list the
\* contradiction stands.
C19_AskPriorityOverAllContradictions ==
    (Done /\ CaseResult.final_decision = "escalate") =>
        /\ AnyContradictionMentions("dob")
              => CaseResult.targeted_ask = <<"Request: government ID to confirm DOB">>
        /\ (~AnyContradictionMentions("dob") /\ AnyContradictionMentions("age"))
              => CaseResult.targeted_ask = <<"Request: government ID to confirm age">>
        /\ ( /\ ~AnyContradictionMentions("dob")
             /\ ~AnyContradictionMentions("age")
             /\ AnyContradictionMentions("employer") )
              => CaseResult.targeted_ask =
                     <<"Request: employment verification to resolve employer contradiction">>

----------------------------------------------------------------------------
(* The targeted ask of a case whose accepted articles lack key anchors *)

\* the anchors an accepted article has besides the name: none, a dob, an
\* age, an employer, or a dob and an employer
KeyAnchorLists ==
    { <<>>,
      <<Anchor("dob", <<"1985-03-15">>)>>,
      <<Anchor("age", <<"40">>)>>,
      <<Anchor("employer", <<"A", "b">>)>>,
      <<Anchor("dob", <<"1985-03-15">>), Anchor("employer", <<"A", "b">>)>> }

\* an accepted article of the last 12 months with these anchors, without a
\* contradiction or with a city conflict (and then the city anchor it is about)
KeyAnchorArticle(anchor_list, city_conflict) ==
    [AskArticle(IF city_conflict
                THEN <<_verify_city(ProfileSmith, <<"x">>).rationale>> ELSE <<>>)
        EXCEPT !.anchors = <<Anchor("name", JohnSmith)>> \o anchor_list
                           \o (IF city_conflict
                               THEN <<Anchor("city", <<"x">>)>> ELSE <<>>)]

KeyAnchorArticles ==
    {KeyAnchorArticle(al, cc) : al \in KeyAnchorLists, cc \in BOOLEAN}

InitMissing ==
    /\ pc = "analyze"
    /\ analyzed_articles \in SeqsUpTo(KeyAnchorArticles, MaxAskArticles)
    /\ media_hits = [i \in 1..Len(analyzed_articles) |-> analyzed_articles[i].hit]
    /\ user_profile = ProfileSmith
    /\ result = NoResult
    /\ anchors = <<>>
    /\ article_date = None
    /\ verifications = <<>>
    /\ contradictions = <<>>
    /\ has_name_match = FALSE
    /\ required_anchors = 0
    /\ progress_logs = <<>>

SpecMissing == InitMissing /\ [][FinishCase]_vars

\* no accepted article has an anchor of one of these types
AnchorsWhollyAbsent(types) ==
    \A i \in 1..Len(CaseResult.matched_hits) :
        \A k \in 1..Len(CaseResult.matched_hits[i].anchors) :
            CaseResult.matched_hits[i].anchors[k].anchor_type \notin types

\* C22: when no contradiction mentions dob, age or employer, the targeted
\* ask requests DOB/age verification if no accepted article has a dob or an
\* age anchor, else employment verification if no accepted article has an
\* employer anchor, and is the manual-review request otherwise.
C22_AskNamesWhollyAbsentAnchors ==
    ( /\ Done
      /\ CaseResult.final_decision = "escalate"
      /\ ~AnyContradictionMentions("dob")
      /\ ~AnyContradictionMentions("age")
      /\ ~AnyContradictionMentions("employer") ) =>
        CaseResult.targeted_ask =
            IF AnchorsWhollyAbsent({"dob", "age"})
            THEN <<"Request: additional documentation to verify ", "DOB/age verification">>
            ELSE IF AnchorsWhollyAbsent({"employer"})
            THEN <<"Request: additional documentation to verify ",
                   "employment verification">>
            ELSE <<"Request: manual review of linkage assessment">>

----------------------------------------------------------------------------
(* The per-type rules, with every verification oracle unavailable *)

MaxRuleAnchors == 2

\* the profile's date_of_birth: absent, empty, two spellings of one date,
\* and a string that is no date; its employer and city: absent or empty
RuleProfiles ==
    {[ProfileSmith EXCEPT !.date_of_birth = dob] :
        dob \in {None, <<>>, <<"1985-03-15">>, <<"15 March 1985">>, <<"unknown">>}}
    \cup {[ProfileSmith EXCEPT !.employer = None, !.city = <<>>],
          [ProfileSmith EXCEPT !.employer = <<>>, !.city = None]}

\* employer and city values against the profile's "Ab" and "Ba": equal up
\* to case, containing it, contained in it, and neither
PlaceValues ==
    {<<"a", "B">>, <<"b", "A">>, <<"A", "b", "c">>, <<"B", "a", "c">>, <<"B">>, <<"c">>}

RuleMenu ==
    {Anchor("dob", v) : v \in {<<"1985-03-15">>, <<"15 March 1985">>, <<"1985-11-20">>,
                               <<"unknown">>}}
    \cup {Anchor("age", v) : v \in {<<"38">>, <<"39">>, <<"40">>, <<"forty">>}}
    \cup {Anchor(t, v) : t \in {"employer", "city"}, v \in PlaceValues}

\* hit.date: after and the day before the birthday of 15 March, empty, and a
\* string that is no date
RuleDates == {<<"2025-05-30">>, <<"2024-03-14">>, <<>>, <<"last spring">>}

InitRules ==
    /\ pc = "verify"
    /\ user_profile \in RuleProfiles
    /\ anchors \in SeqsUpTo(RuleMenu, MaxRuleAnchors)
    /\ article_date \in RuleDates
    /\ verifications = <<>>
    /\ result = NoResult
    /\ media_hits = <<>>
    /\ analyzed_articles = <<>>
    /\ contradictions = <<>>
    /\ has_name_match = FALSE
    /\ required_anchors = 0
    /\ progress_logs = <<>>

\* verify_anchors when the batch call and every per-anchor call fail: each
\* anchor goes through lines 53-83 of _verify_single_anchor
VerifyByRules ==
    /\ pc = "verify"
    /\ LET r == verify_anchors(user_profile, anchors, article_date, BatchFailed, Unasked)
       IN  /\ ~r.raised
           /\ verifications' = r.verifications
           /\ result' = [kind |-> "verify_anchors", path |-> r.path,
                         batch |-> BatchFailed, singles |-> Unasked]
    /\ pc' = "verified"
    /\ UNCHANGED <<progress_logs, user_profile, media_hits, analyzed_articles, anchors,
                   article_date, contradictions, has_name_match, required_anchors>>

SpecRules == InitRules /\ [][VerifyByRules]_vars

\* C20: in the dob rule an anchor conflicts only when the profile dob and
\* the anchor value both parse to dates and the dates differ; when either
\* side does not parse, or the profile has no dob, the verdict is neutral;
\* equal dates match.
C20_DobConflictNeedsTwoDates ==
    Verified =>
        \A i \in 1..Len(anchors) :
            anchors[i].anchor_type = "dob" =>
                LET user_dob == parse_date(user_profile.date_of_birth)
                    anchor_dob == parse_date(anchors[i].value)
                    v == verifications[i]
                IN  /\ v.conflict => (user_dob.ok /\ anchor_dob.ok /\ user_dob # anchor_dob)
                    /\ (~user_dob.ok \/ ~anchor_dob.ok) => (~v.matches /\ ~v.conflict)
                    /\ (user_dob.ok /\ anchor_dob.ok /\ user_dob = anchor_dob) => v.matches

\* the verdict of a rule, by name
IsNeutral(v) == ~v.matches /\ ~v.conflict
IsMatch(v) == v.matches /\ ~v.conflict
IsConflict(v) == ~v.matches /\ v.conflict

\* the month and day of date a come before those of date b
BeforeInYear(a, b) == a.month < b.month \/ (a.month = b.month /\ a.day < b.day)

\* C25: in the age rule, with a profile dob and an integer anchor value, the
\* expected age is the article-date year minus the birth year, less one if
\* the article's month/day precedes the birthday; the verdict is match when
\* the anchor age differs from it by at most 1 and conflict otherwise; a
\* missing profile dob, a non-integer value or an unparseable date gives
\* neutral.
C25_AgeRule ==
    Verified =>
        \A i \in 1..Len(anchors) :
            anchors[i].anchor_type = "age" =>
                LET birth == parse_date(user_profile.date_of_birth)
                    at == parse_date(article_date)
                    age == ParseInt(anchors[i].value)
                    v == verifications[i]
                IN  IF ~birth.ok \/ ~at.ok \/ ~age.ok
                    THEN IsNeutral(v)
                    ELSE LET expected == at.year - birth.year
                                           - (IF BeforeInYear(at, birth) THEN 1 ELSE 0)
                         IN  IF age.val - expected \in -1..1
                             THEN IsMatch(v) ELSE IsConflict(v)

\* the same for the article dates that are not empty
C25_HoldsForStatedDates ==
    (Verified /\ article_date # <<>>) =>
        \A i \in 1..Len(anchors) :
            anchors[i].anchor_type = "age" =>
                LET birth == parse_date(user_profile.date_of_birth)
                    at == parse_date(article_date)
                    age == ParseInt(anchors[i].value)
                    v == verifications[i]
                IN  IF ~birth.ok \/ ~at.ok \/ ~age.ok
                    THEN IsNeutral(v)
                    ELSE LET expected == at.year - birth.year
                                           - (IF BeforeInYear(at, birth) THEN 1 ELSE 0)
                         IN  IF age.val - expected \in -1..1
                             THEN IsMatch(v) ELSE IsConflict(v)

\* the profile field an employer or a city anchor is compared with
PlaceField(anchor) ==
    IF anchor.anchor_type = "employer" THEN user_profile.employer ELSE user_profile.city

\* C26: in the employer and the city rule the verdict is neutral when the
\* profile field is absent, match when one lowercased string contains the
\* other, and conflict when the field is present and neither contains the
\* other; both rules follow the same policy.
C26_EmployerAndCityRule ==
    Verified =>
        \A i \in 1..Len(anchors) :
            anchors[i].anchor_type \in {"employer", "city"} =>
                LET field == PlaceField(anchors[i])
                    v == verifications[i]
                IN  IF field = None \/ field = <<>>
                    THEN IsNeutral(v)
                    ELSE IF \/ IsSubstring(Lower(anchors[i].value), Lower(field))
                            \/ IsSubstring(Lower(field), Lower(anchors[i].value))
                    THEN IsMatch(v)
                    ELSE IsConflict(v)

\* a city that contains the profile's city matches; an employer with the
\* same letters in another order conflicts
C26_Witness ==
    /\ Verified
    /\ Len(anchors) = 2
    /\ user_profile.city = <<"B", "a">> /\ user_profile.employer = <<"A", "b">>
    /\ anchors[1] = Anchor("city", <<"B", "a", "c">>)
    /\ IsMatch(verifications[1])
    /\ anchors[2] = Anchor("employer", <<"b", "A">>)
    /\ IsConflict(verifications[2])

----------------------------------------------------------------------------
(* app.py: the progress log of overlapping /compliance/check requests *)

MaxRequests == 2
MaxProgressHits == 1

\* the /compliance/check requests, each sent once by its own client
Requests == 1..MaxRequests

ProgressHitLists ==
    {[i \in 1..n |-> [title |-> <<"hit ", ToString(i)>>, date |-> <<"2025-05-30">>]] :
        n \in 0..MaxProgressHits}

\* _log_progress: the messages "Step k: ..." a run appends through
\* progress_callback, here with the request that recorded them
ProgressMessages(r, n) == [k \in 1..n |-> [request |-> r, step |-> k]]

\* the _log_progress calls of a run that returns: the intake, nine per
\* article, four after the loop
StepsOf(hits) == 1 + 9 * Len(hits) + 4

\* the calls made when the analysis of article i raises in
\* analyze_name_match (after line 94) or in verify_anchors (after line 99)
RaisedSteps(hits) ==
    UNION {{1 + 9 * (i - 1) + 4, 1 + 9 * (i - 1) + 6} : i \in 1..Len(hits)}

InitProgress ==
    /\ pc = [r \in Requests |-> "idle"]
    /\ media_hits \in [Requests -> ProgressHitLists]
    /\ result = [r \in Requests |-> NoResult]
    /\ progress_logs = <<>>
    /\ user_profile = ProfileSmith
    /\ analyzed_articles = <<>>
    /\ anchors = <<>>
    /\ article_date = None
    /\ verifications = <<>>
    /\ contradictions = <<>>
    /\ has_name_match = FALSE
    /\ required_anchors = 0

\* a client posts its request; the server has it waiting for the event loop
Submit(r) ==
    /\ pc[r] = "idle"
    /\ pc' = [pc EXCEPT ![r] = "sent"]
    /\ UNCHANGED <<progress_logs, user_profile, media_hits, analyzed_articles, result,
                   anchors, article_date, verifications, contradictions, has_name_match,
                   required_anchors>>

\* lines 81-103: the handler is a coroutine without an await, so the event
\* loop runs it to its return: the list is replaced by a new one (line 89)
\* and every message of the run is appended to it
Check(r) ==
    /\ pc[r] = "sent"
    /\ progress_logs' = ProgressMessages(r, StepsOf(media_hits[r]))
    /\ pc' = [pc EXCEPT ![r] = "responded"]
    /\ UNCHANGED <<user_profile, media_hits, analyzed_articles, result, anchors,
                   article_date, verifications, contradictions, has_name_match,
                   required_anchors>>

\* lines 105-112: the run raises and the handler answers HTTP 500; the
\* messages appended so far stay in the list
CheckRaises(r) ==
    /\ pc[r] = "sent"
    /\ \E n \in RaisedSteps(media_hits[r]) :
          progress_logs' = ProgressMessages(r, n)
    /\ pc' = [pc EXCEPT ![r] = "failed"]
    /\ UNCHANGED <<user_profile, media_hits, analyzed_articles, result, anchors,
                   article_date, verifications, contradictions, has_name_match,
                   required_anchors>>

\* lines 114-118: GET /compliance/progress, asked by the client of r while
\* its request is under way
GetProgress(r) ==
    /\ pc[r] \in {"sent", "responded", "failed"}
    /\ result' = [result EXCEPT ![r] = [kind |-> "progress", logs |-> progress_logs]]
    /\ UNCHANGED <<pc, progress_logs, user_profile, media_hits, analyzed_articles,
                   anchors, article_date, verifications, contradictions, has_name_match,
                   required_anchors>>

\* the client reads the response of its request
Receive(r) ==
    /\ pc[r] \in {"responded", "failed"}
    /\ pc' = [pc EXCEPT ![r] = "closed"]
    /\ UNCHANGED <<progress_logs, user_profile, media_hits, analyzed_articles, result,
                   anchors, article_date, verifications, contradictions, has_name_match,
                   required_anchors>>

NextProgress ==
    \E r \in Requests :
        Submit(r) \/ Check(r) \/ CheckRaises(r) \/ GetProgress(r) \/ Receive(r)

SpecProgress == InitProgress /\ [][NextProgress]_vars

\* the request is sent and its client has not read the response yet
UnderWay(r) == pc[r] \in {"sent", "responded", "failed"}

\* message k of request r is in the list
Logged(logs, r, k) == \E i \in 1..Len(logs) : logs[i] = [request |-> r, step |-> k]

\* the messages recorded for a handled request are all in the list
MessagesKept(r) ==
    /\ pc[r] = "responded" => \A k \in 1..StepsOf(media_hits[r]) : Logged(progress_logs, r, k)
    /\ pc[r] = "failed" => Logged(progress_logs, r, 1)

\* the messages of a list are those of one request
OfOneRequest(logs) ==
    \A i \in 1..Len(logs) : \A j \in 1..Len(logs) : logs[i].request = logs[j].request

\* C27: the progress log is not shared by overlapping requests: while two
\* /compliance/check requests are under way together, the messages recorded
\* for one are not erased by the other, the log does not mix the messages of
\* two requests, and /compliance/progress never returns messages of two
\* requests together.
C27_ProgressLogNotShared ==
    /\ \A r \in Requests : \A q \in Requests \ {r} :
           (UnderWay(r) /\ UnderWay(q)) => MessagesKept(r)
    /\ OfOneRequest(progress_logs)
    /\ \A r \in Requests : result[r] # NoResult => OfOneRequest(result[r].logs)

\* the part of C27 that holds: no list mixes the messages of two requests
C27_NeverMixed ==
    /\ OfOneRequest(progress_logs)
    /\ \A r \in Requests : result[r] # NoResult => OfOneRequest(result[r].logs)

\* a stricter reading: a client asking for progress is handed messages of
\* its own request only
C27_OwnMessagesOnly ==
    \A r \in Requests :
        result[r] # NoResult =>
            \A i \in 1..Len(result[r].logs) : result[r].logs[i].request = r

====
